---- MODULE Spec2Model ----
(***************************************************************************)
(* A state-machine model of smart-chery-pick.py: the main loop over the    *)
(* requested commits, the recursive analysis of a commit, the apply batch  *)
(* and the recovery of a failed cherry-pick.  The version-control engine   *)
(* and the user are collaborators: every answer they give is an input      *)
(* drawn with \E from a small set.                                         *)
(***************************************************************************)
EXTENDS Integers, Sequences, FiniteSets, TLC

\* ------------------------------------------------------------------ bounds
MaxCommit == 3
MaxFile == 2
MaxInitial == 2
MaxMissing == 2
MaxDeps == 1
MaxSurprises == 1
MaxStr == 3
LongLen == 40
ShortLen == 23

Commits == 1..MaxCommit          \* commit n is the n-th commit of the history line
Files == 1..MaxFile
None == 0                        \* Python None / empty command output

\* ----------------------------------------------------------------- helpers
Range(s) == {s[k] : k \in 1..Len(s)}

Contains(s, x) == \E k \in 1..Len(s) : s[k] = x

RECURSIVE Dedup(_, _)
\* first-occurrence order, dropping the members of drop
Dedup(s, drop) ==
    IF s = <<>> THEN <<>>
    ELSE LET rest == Dedup(Tail(s), drop \cup {Head(s)})
         IN IF Head(s) \in drop THEN rest ELSE <<Head(s)>> \o rest

RECURSIVE NewestFirst(_)
\* `git log` lists the commits of a set newest first
NewestFirst(S) ==
    IF S = {} THEN <<>>
    ELSE LET m == CHOOSE x \in S : \A y \in S : y <= x
         IN <<m>> \o NewestFirst(S \ {m})

DistinctSeqs(S, n) ==
    {s \in UNION {[1..k -> S] : k \in 0..n} :
        \A a, b \in 1..Len(s) : a # b => s[a] # s[b]}

\* ------------------------------------------------------------------- state
VARIABLES
    mode,                     \* "commits" | "range" | "saved": how main got its list
    auto_mode, dry_run, auto_add_dependencies,
    initial_commits, initial_commit,
    cherry_pick_queue, final_commits,
    analyzed_commits, applied_commits, skipped_commits,
    stop_analysis,
    file_renames,             \* [Files -> Files \cup {None}]
    processed_missing_files,  \* set of <<file, commit>>
    created_files,
    declined,                 \* the commits for which the user ignored a missing file
                              \* during analysis
    dep_cache,                \* [Commits \X Files -> seq of commits or <<None>>]
    history_file,             \* .smart_cherry_pick_history
    cache_file,               \* .smart_cherry_pick_dependency_cache.json, or NoFile
    commits_file,             \* .smart_cherry_pick_commits.json
    pc,                       \* position of the single control thread
    idx,                      \* main's position in initial_commits
    stack,                    \* frames of analyze_commit, innermost last
    commit_list, batch_idx, success_count, fail_count,
    rec,                      \* frame of handle_cherry_pick_error
    exit_after,               \* "" | "exit0" | "exit1": sys.exit pending
    in_progress,              \* the working tree is in a conflicted / mid-replay state
    git_log,                  \* the version-control operations invoked, in order,
                              \* since main or the batch loop took up its current commit
    replayed,                 \* the commits handed to a replay operation in this run
    str1, str2,               \* the arguments of a call of calculate_similarity
    prev_row, row_i,          \* its prev_row, and the row its outer loop is at
    file_path,                \* the argument of the last call of find_similar_files
    all_files,                \* what `git ls-files` prints
    threshold,                \* config["rename_detection_threshold"]
    results,                  \* what the last call of find_similar_files returned
    similar_files_cache,
    similarity,               \* and what it returned (NotComputed before the call)
    asked,                    \* the last step read an answer of the user from the
                              \* terminal
    budget,                   \* how many answers of the version-control collaborator
                              \* may be other than the plain one in this run
    surprises,                \* how many answers of the version-control collaborator
                              \* were not the plain one (the path exists, nothing
                              \* found, the replay succeeds)
    added_suspects,           \* <<root, dep>>: analyze_commit added the suspect dep
                              \* while main's call for root was going on
    blamed,                   \* the commit and file of the last call of
                              \* get_blame_and_grep_dependencies, as they were written
    dependencies,             \* what that call returned
    named_cache,              \* its dep_cache, keyed by what the caller wrote
    touching,                 \* the commits git reports for a file
    served,                   \* where the last list of suspects came from
    name_stack,               \* the calls of analyze_commit in progress, by the names
                              \* the commits were called with
    analyzed_names,           \* analyzed_commits, as the names it holds
    entries,                  \* how often analyze_commit got past its checks, per commit
    origin,                   \* a call of find_commit_adding_file: what git answers
                              \* and what the call returned
    max_retries,              \* config["max_retries"]
    run_call,                 \* the innermost call of run: its arguments
    executions,               \* how many times subprocess.run ran for the outer call
    returned                  \* what the outer call of run gave its caller

vars == <<mode, auto_mode, dry_run, auto_add_dependencies, initial_commits,
          initial_commit, cherry_pick_queue, final_commits, analyzed_commits,
          applied_commits, skipped_commits, stop_analysis, file_renames,
          processed_missing_files, declined, created_files, dep_cache, history_file,
          cache_file, commits_file, pc, idx, stack, commit_list, batch_idx, success_count,
          fail_count, rec, exit_after, in_progress, git_log, replayed, asked,
          budget, surprises, str1, str2, prev_row, row_i, similarity, file_path,
          all_files, threshold, results, similar_files_cache, added_suspects, blamed,
          dependencies, named_cache, touching, served, name_stack, analyzed_names, entries, origin,
          max_retries, run_call, executions, returned>>

callVars == <<str1, str2, prev_row, row_i, similarity>>
findVars == <<file_path, all_files, threshold, results, similar_files_cache>>
blameVars == <<blamed, dependencies, named_cache, touching, served>>
shellVars == <<max_retries, run_call, executions, returned>>
namedVars == <<name_stack, analyzed_names, entries>>
originVars == <<origin>>
toolVars == <<blameVars, namedVars, originVars, shellVars>>
simVars == <<callVars, findVars, toolVars>>
\* what no step of a run writes
givenVars == <<mode, auto_mode, dry_run, auto_add_dependencies, initial_commits,
               budget, simVars>>
\* and what only the loop over the suspects writes
flagVars == <<givenVars, added_suspects>>
analysisVars == <<cherry_pick_queue, final_commits, analyzed_commits, stop_analysis,
                  file_renames, processed_missing_files, declined, created_files, dep_cache,
                  stack>>
batchVars == <<commit_list, batch_idx, success_count, fail_count>>

NoRec == [commit |-> None, ret |-> "", forced |-> FALSE, missing |-> <<>>,
          failed |-> <<>>, handled |-> 0, named |-> 0]

Op(o, c, ok) == [op |-> o, c |-> c, ok |-> ok]

\* ------------------------------------------------- version-control answers
Trees == {"clean", "picking", "dirty"}

\* `git cherry-pick <commit>`: it refuses to start on a tree that is not clean;
\* a failure either stops on conflicts (replay left in progress) or leaves
\* the tree as it was.
ReplayOutcomes(tree) ==
    IF tree # "clean" THEN {[ok |-> FALSE, tree |-> tree]}
    ELSE {[ok |-> TRUE, tree |-> "clean"],
          [ok |-> FALSE, tree |-> "picking"],
          [ok |-> FALSE, tree |-> "clean"]}

\* the answers the collaborator may give after n answers that were not the
\* plain one
Answers(plain, other, n) == plain \cup (IF n < budget THEN other ELSE {})

Surprised(cond, n) == IF cond THEN n + 1 ELSE n

\* the first replay of a commit after n answers that were not the plain one:
\* the replay may still fail on a clean tree while n < budget
FirstOutcomes(tree, n) ==
    {out \in ReplayOutcomes(tree) : out.ok \/ tree # "clean" \/ n < budget}

Failed(tree, out, n) == IF tree = "clean" /\ ~out.ok THEN n + 1 ELSE n

\* an abort that leaves the replay in progress
NoAbort(tree) == tree

\* `git cherry-pick --abort`: ends a replay in progress, nothing else
AfterAbort(tree) == IF tree = "picking" THEN "clean" ELSE tree

\* The history being ported, one repository: path 1 is added by commit 1 and
\* changed by every later commit; the other paths are local to the target
\* line and no commit of the history has them.
Touch(file) == IF file = 1 THEN Commits ELSE {}

\* get_commit_files: the paths a commit touches, in diff order
CommitFiles(commit) ==
    LET touched == {f \in Files : commit \in Touch(f)}
    IN [k \in 1..Cardinality(touched) |->
           CHOOSE f \in touched : Cardinality({g \in touched : g < f}) = k - 1]

\* find_commit_adding_file: the oldest commit that has the path, or nothing
\* when every search comes back empty
AddingCommits(file) ==
    {None} \cup {c \in Touch(file) : \A d \in Touch(file) : c <= d}

\* get_last_commit_affecting_file: the newest commit of the line searched
\* that has the path, if any
LastCommits(file) ==
    {None} \cup {c \in Touch(file) : \A d \in Touch(file) : d <= c}

\* the local paths a missing path can be mapped to: a similar file that
\* exists, or the name the user types
LocalNames(file) == Files \ {file}

\* find_similar_files for each path of a list: the best candidate, if any
Similar(files) ==
    {sim \in [Range(files) -> Files \cup {None}] :
        \A f \in Range(files) : sim[f] \in LocalNames(f) \cup {None}}

NoEntry == <<None>>

\* ------------------------------------------------------- program operators
\* the characters and the strings calculate_similarity is applied to
Alphabet == {"a", "b"}
Strings == UNION {[1..n -> Alphabet] : n \in 0..MaxStr}
NotComputed == -1

Min3(a, b, c) == IF a <= b /\ a <= c THEN a ELSE IF b <= c THEN b ELSE c

\* a cost that depends on the direction of the substitution
DifferFromA(c1, c2) == IF c1 = "a" /\ c2 # "a" THEN 1 ELSE 0

\* `(c1 != c2)` as a number, 553
Differ(c1, c2) == IF c1 # c2 THEN 1 ELSE 0

RECURSIVE InnerLoop(_, _, _, _, _)
\* `for j, c2 in enumerate(str2)`, 550-554, from the j-th character of str2 on
\* (prev is prev_row, 1-based here: prev[j + 1] is the code's prev_row[j])
InnerLoop(curr_row, prev, c1, s2, j) ==
    \* the loop ends after the last character of str2, when curr_row has an
    \* entry for each (j = Len(curr_row))
    IF Len(curr_row) > Len(s2)
    THEN curr_row
    ELSE LET insertions == prev[j + 1] + 1
             deletions == curr_row[j] + 1
             substitutions == prev[j] + Differ(c1, s2[j])
         IN InnerLoop(Append(curr_row, Min3(insertions, deletions, substitutions)),
                      prev, c1, s2, j + 1)

RECURSIVE OuterLoop(_, _, _, _)
\* `for i, c1 in enumerate(str1)`, 548-555, from the i-th character of str1 on;
\* curr_row starts as [i + 1] for the code's 0-based i
OuterLoop(prev, s1, s2, i) ==
    IF i > Len(s1)
    THEN prev
    ELSE OuterLoop(InnerLoop(<<i>>, prev, s1[i], s2, 1), s1, s2, i + 1)

\* round(num / den) on the exact quotient: to the nearest integer, a tie to the
\* even one (Python 3's round)
Round(num, den) ==
    LET q == num \div den
        r == num % den
    IN IF 2 * r < den THEN q
       ELSE IF 2 * r > den THEN q + 1
       ELSE IF q % 2 = 0 THEN q ELSE q + 1

\* ---- the floats of lines 557-559: a positive double is its Mantissa
\* significant bits, the first of them 1, and the exponent e of that first bit
\* (the value is the sum of bits[k] * 2^(e - k + 1))
Mantissa == 53
Piece == 18

\* a binary number, most significant bit first, plus one: a bit flips when
\* every bit after it is 1 (the sum of a number of all ones is one bit longer)
Increment(bits) ==
    IF \A k \in 1..Len(bits) : bits[k] = 1
    THEN <<1>> \o [k \in 1..Len(bits) |-> 0]
    ELSE [k \in 1..Len(bits) |->
             IF \A j \in (k + 1)..Len(bits) : bits[j] = 1 THEN 1 - bits[k] ELSE bits[k]]

\* the double nearest to an exact binary expansion (first bit 1, exponent e;
\* sticky says that something non-zero follows the bits given): round to
\* nearest, ties to even, as IEEE 754 division and multiplication do
ToDouble(bits, sticky, e) ==
    LET padded == IF Len(bits) > Mantissa
                  THEN bits
                  ELSE bits \o [k \in 1..(Mantissa + 1 - Len(bits)) |-> 0]
        kept == SubSeq(padded, 1, Mantissa)
        guard == padded[Mantissa + 1]
        rest == sticky \/ \E k \in (Mantissa + 2)..Len(padded) : padded[k] = 1
        up == guard = 1 /\ (rest \/ kept[Mantissa] = 1)
        inc == Increment(kept)
    IN IF ~up
       THEN [bits |-> kept, e |-> e]
       ELSE IF Len(inc) > Mantissa
       THEN [bits |-> SubSeq(inc, 1, Mantissa), e |-> e + 1]
       ELSE [bits |-> inc, e |-> e]

RECURSIVE Scale(_, _, _)
\* num doubled until it reaches den: the scaled number and the doublings
Scale(num, den, s) ==
    IF num >= den THEN [n |-> num, s |-> s] ELSE Scale(2 * num, den, s + 1)

RECURSIVE Pow2Mod(_, _)
\* 2^j modulo den, by squaring
Pow2Mod(j, den) ==
    IF j = 0 THEN 1 % den
    ELSE IF j % 2 = 0
    THEN LET h == Pow2Mod(j \div 2, den) IN (h * h) % den
    ELSE (2 * Pow2Mod(j - 1, den)) % den

\* the remainder of num * 2^j divided by den
Remainder(num, den, j) == ((num % den) * Pow2Mod(j, den)) % den

\* the bit of weight 2^-j, j >= 1, of the binary expansion of num / den < 1:
\* the step of the long division that doubles the remainder left by the
\* bits before it
QuotientBit(num, den, j) == IF 2 * Remainder(num, den, j - 1) >= den THEN 1 ELSE 0

\* the float `num / den` of two integers, 0 < num <= den
FloatDiv(num, den) ==
    IF num = den
    THEN [bits |-> [k \in 1..Mantissa |-> IF k = 1 THEN 1 ELSE 0], e |-> 0]
    ELSE LET s == Scale(num, den, 0).s
         IN ToDouble([k \in 1..(Mantissa + 1) |-> QuotientBit(num, den, s + k - 1)],
                     Remainder(num, den, s + Mantissa) # 0, 0 - s)

RECURSIVE Value(_)
\* the number a sequence of bits stands for
Value(bits) ==
    IF bits = <<>> THEN 0 ELSE 2 * Value(SubSeq(bits, 1, Len(bits) - 1)) + bits[Len(bits)]

\* the float `x * c` for an integer 2 <= c < 2^13: the mantissa is multiplied
\* in three pieces of Piece bits, carrying from each to the next, and the
\* exact product is rounded to a double
FloatMul(x, c) ==
    LET c0 == Value(SubSeq(x.bits, Mantissa - Piece + 1, Mantissa))
        c1 == Value(SubSeq(x.bits, Mantissa - 2 * Piece + 1, Mantissa - Piece))
        c2 == Value(SubSeq(x.bits, 1, Mantissa - 2 * Piece))
        p0 == c0 * c
        p1 == c1 * c + p0 \div 2^Piece
        p2 == c2 * c + p1 \div 2^Piece
        d0 == p0 % 2^Piece
        d1 == p1 % 2^Piece
        top == CHOOSE n \in 1..31 : 2^(n - 1) <= p2 /\ p2 < 2^n
        len == top + 2 * Piece
        \* the bit of weight 2^j of the product
        bit(j) == IF j >= 2 * Piece THEN (p2 \div 2^(j - 2 * Piece)) % 2
                  ELSE IF j >= Piece THEN (d1 \div 2^(j - Piece)) % 2
                  ELSE (d0 \div 2^j) % 2
    IN ToDouble([k \in 1..len |-> bit(len - k)], FALSE, x.e + len - Mantissa)

\* round(x) of a float below 2^Mantissa: exact on the double, a tie to the even
\* integer
RoundFloat(x) ==
    IF x.e < -1
    THEN 0
    ELSE LET int == Value(SubSeq(x.bits, 1, x.e + 1))
             half == x.bits[x.e + 2]
             rest == \E k \in (x.e + 3)..Mantissa : x.bits[k] = 1
         IN IF half = 1 /\ (rest \/ int % 2 = 1) THEN int + 1 ELSE int

\* `round(((max_len - distance) / max_len) * 100)`, 557-559
Percent(left, max_len) ==
    IF left = 0 THEN 0 ELSE RoundFloat(FloatMul(FloatDiv(left, max_len), 100))

\* the score of two equal strings, where the code returns none
FullSimilarity == Round(1 * 100, 1)

\* `return 0`, 537 and 544
NoSimilarity == 0

RECURSIVE CalculateSimilarity(_, _)
\* calculate_similarity, 535-559
CalculateSimilarity(s1, s2) ==
    IF s1 = <<>> \/ s2 = <<>>
    THEN NoSimilarity
    ELSE LET m == Len(s1)
             n == Len(s2)
         IN IF m < n
            THEN CalculateSimilarity(s2, s1)
            ELSE IF n = 0
            THEN NoSimilarity
            ELSE LET distance == OuterLoop([k \in 1..(n + 1) |-> k - 1], s1, s2, 1)[n + 1]
                     max_len == IF m >= n THEN m ELSE n
                 IN Percent(max_len - distance, max_len)

\* ---- find_similar_files, 476-533. A path is its directory and its base name
\* (os.path.dirname and os.path.basename), each a string of characters.
NoPath == [dir |-> <<>>, name |-> <<>>]
DefaultThreshold == 50
MaxResults == 5
SameBaseScore == 90
SameDirBonus == 20
NearDirBonus == 10
NearDir == 70
PartialScore == 60
PartialLen == 5

\* os.path.splitext: the extension starts at the last dot that is not the
\* first character
Splitext(name) ==
    LET dots == {k \in 2..Len(name) : name[k] = "."}
    IN IF dots = {}
       THEN <<name, <<>>>>
       ELSE LET k == CHOOSE d \in dots : \A e \in dots : e <= d
            IN <<SubSeq(name, 1, k - 1), SubSeq(name, k, Len(name))>>

\* `part in name` for strings
Within(part, name) ==
    \E k \in 1..(Len(name) - Len(part) + 1) : SubSeq(name, k, k + Len(part) - 1) = part

\* `similar_files.append((repo_file, score))` for every file, in their order
Scored(files, score) == [k \in 1..Len(files) |-> <<files[k], score>>]

\* the first loop, 493-497: files with the same base name and another extension
OtherExtension(filebase, ext, files) ==
    LET SameBase(repo_file) ==
            LET repo == Splitext(repo_file.name)
            IN filebase = repo[1] /\ ext # repo[2]
    IN Scored(SelectSeq(files, SameBase), SameBaseScore)

\* 503-514: the score of one file of the repository
NameSimilarity(path, repo_file) ==
    CalculateSimilarity(path.name, repo_file.name)
      + (IF path.dir = repo_file.dir THEN SameDirBonus ELSE 0)
      + (IF CalculateSimilarity(path.dir, repo_file.dir) > NearDir THEN NearDirBonus ELSE 0)

\* `name_similarity >= config["rename_detection_threshold"]`, 516
Threshold(limit) == limit

\* the second loop, 500-517
BySimilarity(path, files, limit) ==
    LET scores == [k \in 1..Len(files) |-> <<files[k], NameSimilarity(path, files[k])>>]
        Passes(entry) == entry[2] >= Threshold(limit)
    IN SelectSeq(scores, Passes)

\* the third loop, 522-525
Partial(filebase, files) ==
    LET Matches(repo_file) ==
            /\ Len(filebase) > PartialLen
            /\ \/ Within(SubSeq(filebase, 1, PartialLen), repo_file.name)
               \/ Within(SubSeq(filebase, Len(filebase) - PartialLen + 1, Len(filebase)),
                         repo_file.name)
    IN Scored(SelectSeq(files, Matches), PartialScore)

\* the list left as it is
Unsorted(list) == list

\* `similar_files.sort(key=lambda x: x[1], reverse=True)`, 528: by descending
\* score, equal scores in the order they had
SortByScore(list) ==
    LET \* the place of the k-th entry: after the entries of a higher score and
        \* the earlier entries of the same score
        place(k) == 1 + Cardinality({j \in 1..Len(list) :
                                       \/ list[j][2] > list[k][2]
                                       \/ list[j][2] = list[k][2] /\ j < k})
    IN [n \in 1..Len(list) |-> list[CHOOSE m \in 1..Len(list) : place(m) = n]]

\* `similar_files[:5]`, 529
FirstResults(list) == SubSeq(list, 1, IF Len(list) < MaxResults THEN Len(list) ELSE MaxResults)

\* find_similar_files on a miss of its cache, 487-529
SearchSimilarFiles(path, files, limit) ==
    LET split == Splitext(path.name)
        found == (IF split[2] # <<>> THEN OtherExtension(split[1], split[2], files) ELSE <<>>)
                   \o BySimilarity(path, files, limit)
        similar_files == IF Len(found) = 0 /\ Len(split[1]) > 3
                         THEN Partial(split[1], files)
                         ELSE found
    IN FirstResults(SortByScore(similar_files))

\* select_option, 220-236: the choice is read from the terminal unless
\* auto_mode is set, which takes the first option
SelectOption == ~auto_mode

\* a file that does not exist
NoFile == <<"absent">>

\* clean_temp_files, 58-64, for TEMP_FILES = [COMMIT_DEP_CACHE]: the file is
\* removed if it exists
CleanTemp(file) == NoFile

\* load_dep_cache, 248-252
LoadDepCache(file) ==
    IF file = NoFile THEN [k \in Commits \X Files |-> NoEntry] ELSE file

\* a save that writes nothing
SaveNothing(commits) == history_file

\* a save of the plan that writes nothing
SaveNoList(commits) == commits_file

\* save_commits_list, 271-273: what the saved-commits file holds afterwards
SaveCommitsList(commits) == commits

\* save_history, 244-246: what the history file holds afterwards
SaveHistory(commits) == commits

\* add_commit_once that adds nothing
AddNever(s, c) == s

\* `if commit not in final_commits: final_commits.append(commit)`, 846-850, 882-883
AddOnce(s, c) == IF Contains(s, c) THEN s ELSE Append(s, c)

RECURSIVE AddAllOnce(_, _)
\* for c in chain: add_commit_once(c), on one of the two lists
AddAllOnce(s, chain) ==
    IF chain = <<>> THEN s ELSE AddAllOnce(AddOnce(s, Head(chain)), Tail(chain))

\* the requested commits that are not in final, put in front of it
PrependMissing(final, initial, skip) ==
    SelectSeq(initial, LAMBDA c : ~Contains(final, c) /\ c \notin skip) \o final

RECURSIVE AppendMissing(_, _, _)
\* for commit in initial_commits: if commit not in final_commits (and not
\* skipped): final_commits.append(commit)
AppendMissing(final, initial, skip) ==
    IF initial = <<>> THEN final
    ELSE IF ~Contains(final, Head(initial)) /\ Head(initial) \notin skip
         THEN AppendMissing(Append(final, Head(initial)), Tail(initial), skip)
         ELSE AppendMissing(final, Tail(initial), skip)

\* a plan that keeps the skipped commits
ApplyPlanKeepsSkipped(final, initial, skipped) ==
    Dedup(AppendMissing(final, initial, skipped), {})

\* a plan that leaves out the commits with an ignored missing file
ApplyPlanDropsDeclined(final, initial, skipped) ==
    Dedup(AppendMissing(final, initial, skipped), skipped \cup declined)

\* apply_commits_in_order, the plan: commit_list
ApplyPlan(final, initial, skipped) ==
    Dedup(AppendMissing(final, initial, skipped), skipped)

\* find_commit_history_chain, with creation_commit found; touch is the set of
\* commits `git log -- file` knows for the path
HistoryChain(creation, target, touch) ==
    LET result == NewestFirst({c \in touch : creation <= c /\ c <= target})
        all_commits == NewestFirst(touch)
    IN IF creation = None THEN <<>>
       ELSE IF result # <<>>
            THEN (IF ~Contains(result, creation) THEN <<creation>> \o result
                  ELSE result)
            ELSE IF all_commits = <<>> THEN <<creation>> ELSE all_commits

LargeProject == 50
BatchSize == 10

\* --------------------------------------------------------------------- Init
Start ==
    /\ mode \in {"commits", "range", "saved"}
    /\ auto_mode \in BOOLEAN
    /\ dry_run \in BOOLEAN
    /\ auto_add_dependencies \in BOOLEAN
    /\ history_file \in SUBSET Commits
    /\ applied_commits = history_file
    /\ \E left \in {NoFile, [k \in Commits \X Files |-> <<>>]} :
          \* whatever an earlier run left is removed when the module is loaded, 66
          cache_file = CleanTemp(left)
    /\ \E skipArg \in {S \in SUBSET Commits : Cardinality(S) <= 1} :
          /\ skipped_commits = IF mode = "range" THEN skipArg ELSE {}
          /\ initial_commits \in
                {s \in DistinctSeqs(Commits, MaxInitial) :
                    /\ s = <<>> => mode \in {"range", "saved"}
                    /\ Range(s) \cap skipped_commits = {}
                    /\ mode = "range" =>
                          \A a, b \in 1..Len(s) : a < b => s[a] < s[b]}
    /\ commits_file = initial_commits
    /\ initial_commit = None
    /\ cherry_pick_queue = <<>>
    /\ final_commits = <<>>
    /\ analyzed_commits = {}
    /\ stop_analysis = FALSE
    /\ file_renames = [f \in Files |-> None]
    /\ processed_missing_files = {}
    /\ declined = {}
    /\ created_files = {}
    /\ dep_cache = LoadDepCache(cache_file)
    /\ pc = "main"
    /\ idx = 1
    /\ stack = <<>>
    /\ commit_list = <<>>
    /\ batch_idx = 0
    /\ success_count = 0
    /\ fail_count = 0
    /\ rec = NoRec
    /\ exit_after = ""
    /\ in_progress = "clean"
    /\ git_log = <<>>
    /\ replayed = {}
    /\ asked = FALSE
    /\ surprises = 0
    /\ added_suspects = {}
    /\ similarity = NotComputed

\* any invocation, against a collaborator that gives at most MaxSurprises
\* answers other than the plain one
NoName == <<>>
DefaultRetries == 3
NoRunCall == [remote |-> FALSE, allow_fail |-> FALSE, capture_output |-> TRUE,
              retry |-> 0, code |-> "none"]
NotReturned == "(running)"

\* calculate_similarity is not being called
NoCall == str1 = <<>> /\ str2 = <<>> /\ prev_row = <<>> /\ row_i = 0

\* find_similar_files has not been called
NoSearch ==
    /\ file_path = NoPath
    /\ results = <<>>
    /\ similar_files_cache = [p \in {} |-> <<>>]

\* nor are files looked for
NoFiles == NoSearch /\ all_files = <<>> /\ threshold = DefaultThreshold

\* get_blame_and_grep_dependencies has not been called
NotServed == "(no call)"

NoBlame ==
    /\ served = NotServed
    /\ blamed = NoName
    /\ dependencies = {}
    /\ named_cache = [k \in {} |-> {}]
    /\ touching = {}

\* run is not being called; config["max_retries"] has its default, 53
NoRun ==
    /\ max_retries = DefaultRetries
    /\ run_call = NoRunCall
    /\ executions = 0
    /\ returned = NotReturned

\* analyze_commit is not followed by name
NoNamed ==
    /\ name_stack = <<>>
    /\ analyzed_names = {}
    /\ entries = [c \in Commits |-> 0]

\* find_commit_adding_file is not followed
NoOrigin == origin = [remote_name |-> FALSE, found |-> [by |-> "(no call)", commit |-> None]]

NoTools == NoBlame /\ NoNamed /\ NoOrigin /\ NoRun

Init == Start /\ budget = MaxSurprises /\ NoCall /\ NoFiles /\ NoTools

\* the invocations with commits on the command line or an empty saved list,
\* an empty history and no simulation, against a collaborator that may give one such answer more
DeepInit ==
    /\ Start
    /\ budget = MaxSurprises + 1
    /\ mode = "commits" \/ (mode = "saved" /\ initial_commits = <<>>)
    /\ history_file = {}
    /\ ~dry_run
    /\ NoCall
    /\ NoFiles
    /\ NoTools

\* ------------------------------------------------------------ main, 2393-2409
\* the commit main's loop is at, when it is one process_commit is called for
MainCommit ==
    IF idx <= Len(initial_commits) THEN initial_commits[idx] ELSE None

\* `if not saved_commits`, 2346
NoSaved == mode = "saved" /\ initial_commits = <<>>

MainProcesses ==
    /\ pc = "main"
    /\ idx <= Len(initial_commits)
    /\ MainCommit \notin applied_commits
    /\ MainCommit \notin skipped_commits

\* --apply-saved without a saved list: main returns before its try block,
\* 2345-2349
NoSavedCommits ==
    /\ pc = "main"
    /\ asked' = FALSE
    /\ NoSaved
    /\ pc' = "exit"
    /\ UNCHANGED <<flagVars, cache_file, analysisVars, batchVars, initial_commit,
                   applied_commits, skipped_commits, history_file, commits_file,
                   idx, rec, exit_after, in_progress, git_log, replayed, surprises>>

\* the loop skips a commit that is applied or skipped; after the last commit it
\* asks to proceed when some selected commit is not applied yet
MainLoop ==
    /\ pc = "main"
    /\ asked' = FALSE
    /\ ~NoSaved
    /\ ~MainProcesses
    /\ IF idx <= Len(initial_commits)
       THEN /\ idx' = idx + 1
            /\ pc' = "main"
       ELSE /\ idx' = idx
            /\ pc' = IF final_commits # <<>>
                        /\ \E k \in 1..Len(final_commits) :
                              final_commits[k] \notin applied_commits
                     THEN "proceed" ELSE "finish"
    /\ git_log' = <<>>
    /\ UNCHANGED <<flagVars, cache_file, analysisVars, batchVars, initial_commit,
                   applied_commits, skipped_commits, history_file, commits_file,
                   rec, exit_after, in_progress, replayed, surprises>>

\* an analysis that takes every commit for new
KnownNever(commit) == FALSE

\* `if commit in analyzed_commits or commit in applied_commits`, 878
Known(commit) == commit \in analyzed_commits \/ commit \in applied_commits

\* analyze_commit, 875-889: the frame pushed for commit, or no frame
\* when the call returns at once
EnterNoop(commit) == stop_analysis \/ Known(commit)

Frame(commit, files) ==
    [c |-> commit, files |-> files, ph |-> "file", actual |-> None, deps |-> <<>>]

\* process_commit, "Analizar" (the only choice in automatic mode)
ProcessAnalyze ==
    /\ MainProcesses
    /\ asked' = SelectOption
    /\ initial_commit' = MainCommit
    /\ stop_analysis' = FALSE
    /\ cherry_pick_queue' = <<MainCommit>>
    /\ idx' = idx + 1
    /\ IF Known(MainCommit)
       THEN /\ pc' = "main"
            /\ UNCHANGED <<final_commits, analyzed_commits, stack>>
       ELSE /\ final_commits' = AddOnce(final_commits, MainCommit)
            /\ analyzed_commits' = analyzed_commits \cup {MainCommit}
            /\ stack' = <<Frame(MainCommit, CommitFiles(MainCommit))>>
            /\ pc' = "analyze"
    /\ UNCHANGED <<flagVars, cache_file, batchVars, applied_commits, skipped_commits,
                   file_renames, processed_missing_files, declined, created_files, dep_cache,
                   history_file, commits_file, rec, exit_after, in_progress, git_log, replayed, surprises>>

\* process_commit, "Aplicar cherry-pick directamente", 1018-1049
ProcessDirect ==
    /\ MainProcesses
    /\ asked' = SelectOption
    /\ ~auto_mode
    /\ initial_commit' = MainCommit
    /\ stop_analysis' = FALSE
    /\ cherry_pick_queue' = <<MainCommit>>
    /\ idx' = idx + 1
    /\ IF dry_run
       THEN /\ final_commits' = Append(final_commits, MainCommit)
            /\ pc' = "main"
            /\ UNCHANGED <<applied_commits, rec, in_progress, git_log, replayed, surprises>>
       ELSE \E out \in FirstOutcomes(in_progress, surprises) :
            /\ git_log' = <<Op("pick", MainCommit, out.ok)>>
            /\ replayed' = replayed \cup {MainCommit}
            /\ surprises' = Failed(in_progress, out, surprises)
            /\ in_progress' = out.tree
            /\ IF out.ok
               THEN /\ applied_commits' = applied_commits \cup {MainCommit}
                    /\ final_commits' = Append(final_commits, MainCommit)
                    /\ pc' = "main"
                    /\ rec' = rec
               ELSE /\ pc' = "recover"
                    /\ rec' = [NoRec EXCEPT !.commit = MainCommit, !.ret = "main",
                                             !.forced = (in_progress # "clean")]
                    /\ UNCHANGED <<applied_commits, final_commits>>
    /\ UNCHANGED <<flagVars, cache_file, batchVars, analyzed_commits, skipped_commits,
                   file_renames, processed_missing_files, declined, created_files, dep_cache,
                   stack, history_file, commits_file, exit_after>>

\* process_commit, "Editar": edit_commit_before_applying, 1056-1101
ProcessEdit ==
    /\ MainProcesses
    /\ asked' = SelectOption
    /\ ~auto_mode
    /\ initial_commit' = MainCommit
    /\ stop_analysis' = FALSE
    /\ cherry_pick_queue' = <<MainCommit>>
    /\ idx' = idx + 1
    /\ pc' = "main"
    /\ replayed' = replayed \cup {MainCommit}
    /\ \E out \in FirstOutcomes(in_progress, surprises) :
          /\ surprises' = Failed(in_progress, out, surprises)
          /\ IF ~out.ok
             THEN /\ git_log' = <<Op("pick_n", MainCommit, FALSE)>>
                  /\ in_progress' = IF out.tree = "picking" THEN "dirty" ELSE out.tree
                  /\ UNCHANGED <<applied_commits, final_commits>>
             ELSE \E committed \in BOOLEAN :
                  /\ git_log' = <<Op("pick_n", MainCommit, TRUE),
                                    Op("commit", MainCommit, committed)>>
                  /\ in_progress' = IF committed THEN "clean" ELSE "dirty"
                  /\ applied_commits' = applied_commits \cup {MainCommit}
                  /\ final_commits' = Append(final_commits, MainCommit)
    /\ UNCHANGED <<flagVars, cache_file, batchVars, analyzed_commits, skipped_commits,
                   file_renames, processed_missing_files, declined, created_files, dep_cache,
                   stack, history_file, commits_file, rec, exit_after>>

\* process_commit, "Omitir este commit", 1052-1054
ProcessOmit ==
    /\ MainProcesses
    /\ asked' = SelectOption
    /\ ~auto_mode
    /\ initial_commit' = MainCommit
    /\ stop_analysis' = FALSE
    /\ cherry_pick_queue' = <<MainCommit>>
    /\ idx' = idx + 1
    /\ pc' = "main"
    /\ skipped_commits' = skipped_commits \cup {MainCommit}
    /\ UNCHANGED <<flagVars, cache_file, batchVars, final_commits, analyzed_commits,
                   applied_commits, file_renames, processed_missing_files, declined,
                   created_files, dep_cache, stack, history_file, commits_file,
                   rec, exit_after, in_progress, git_log, replayed, surprises>>

\* ------------------------------------------- ask_to_proceed, 1103-1142
ProceedFinal == AppendMissing(final_commits, initial_commits, {})

\* an apply phase that ignores the flag
NotSimulated == FALSE

\* `if dry_run`: print the plan and return, 1160-1164
Simulated == dry_run

\* "Continuar" (the only way in automatic mode): apply_commits_in_order up to
\* the batch loop, 1144-1174
ProceedApply ==
    /\ pc = "proceed"
    /\ asked' = SelectOption
    /\ final_commits' = AppendMissing(ProceedFinal, initial_commits, skipped_commits)
    /\ commit_list' = ApplyPlan(ProceedFinal, initial_commits, skipped_commits)
    /\ commits_file' = SaveCommitsList(commit_list')
    /\ IF Simulated
       THEN /\ pc' = "finish"
            /\ UNCHANGED <<batch_idx, success_count, fail_count>>
       ELSE /\ pc' = "batch"
            /\ batch_idx' = 1
            /\ success_count' = 0
            /\ fail_count' = 0
    /\ UNCHANGED <<flagVars, cache_file, initial_commit, cherry_pick_queue, analyzed_commits,
                   applied_commits, skipped_commits, stop_analysis, file_renames,
                   processed_missing_files, declined, created_files, dep_cache, history_file,
                   idx, stack, rec, exit_after, in_progress, git_log, replayed, surprises>>

\* "Guardar lista y salir sin aplicar" / "Cancelar y revisar nuevamente"
ProceedLeave ==
    /\ pc = "proceed"
    /\ asked' = SelectOption
    /\ ~auto_mode
    /\ final_commits' = ProceedFinal
    /\ \E save \in BOOLEAN :
          commits_file' = IF save THEN Dedup(ProceedFinal, {}) ELSE commits_file
    /\ pc' = "finish"
    /\ UNCHANGED <<flagVars, cache_file, batchVars, initial_commit, cherry_pick_queue,
                   analyzed_commits, applied_commits, skipped_commits,
                   stop_analysis, file_renames, processed_missing_files, declined,
                   created_files, dep_cache, history_file, idx, stack, rec,
                   exit_after, in_progress, git_log, replayed, surprises>>

\* ------------------------------- apply_commits_in_order, the loop, 1176-1248
BatchCommit ==
    IF batch_idx >= 1 /\ batch_idx <= Len(commit_list)
    THEN commit_list[batch_idx] ELSE None

\* a loop that passes over no commit
NeverApplied(commit) == FALSE

\* `if commit in applied_commits`: the loop passes over the commit, 1186-1189
AlreadyApplied(commit) == commit \in applied_commits

\* one iteration of the loop, 1182-1225
BatchStep ==
    /\ pc = "batch"
    /\ asked' = FALSE
    /\ batch_idx <= Len(commit_list)
    /\ batch_idx' = batch_idx + 1
    /\ IF AlreadyApplied(BatchCommit)
       THEN /\ success_count' = success_count + 1
            /\ pc' = "batch"
            /\ git_log' = <<>>
            /\ UNCHANGED <<fail_count, applied_commits, rec, in_progress, replayed, surprises>>
       ELSE IF BatchCommit \in skipped_commits
       THEN /\ pc' = "batch"
            /\ git_log' = <<>>
            /\ UNCHANGED <<success_count, fail_count, applied_commits, rec,
                           in_progress, replayed, surprises>>
       ELSE \E out \in FirstOutcomes(in_progress, surprises) :
            /\ git_log' = <<Op("pick", BatchCommit, out.ok)>>
            /\ replayed' = replayed \cup {BatchCommit}
            /\ surprises' = Failed(in_progress, out, surprises)
            /\ in_progress' = out.tree
            /\ IF out.ok
               THEN /\ applied_commits' = applied_commits \cup {BatchCommit}
                    /\ success_count' = success_count + 1
                    /\ pc' = "batch"
                    /\ UNCHANGED <<fail_count, rec>>
               ELSE /\ fail_count' = fail_count + 1
                    /\ pc' = "recover"
                    /\ rec' = [NoRec EXCEPT !.commit = BatchCommit, !.ret = "batch",
                                             !.forced = (in_progress # "clean")]
                    /\ UNCHANGED <<success_count, applied_commits>>
    /\ history_file' = IF Len(commit_list) > LargeProject /\ batch_idx > 1
                          /\ (batch_idx - 1) % BatchSize = 0
                       THEN applied_commits ELSE history_file
    /\ UNCHANGED <<flagVars, cache_file, analysisVars, commit_list, initial_commit,
                   skipped_commits, commits_file, idx, exit_after>>

\* after the loop: the summary and save_history, 1232-1248
BatchEnd ==
    /\ pc = "batch"
    /\ asked' = FALSE
    /\ batch_idx > Len(commit_list)
    /\ history_file' = SaveHistory(applied_commits)
    /\ pc' = "finish"
    /\ git_log' = <<>>
    /\ UNCHANGED <<flagVars, cache_file, analysisVars, batchVars, initial_commit,
                   applied_commits, skipped_commits, commits_file, idx, rec,
                   exit_after, in_progress, replayed, surprises>>

\* KeyboardInterrupt inside main's try block, 2411-2418: the handler saves and
\* calls sys.exit(1); the calls in flight are gone
Interrupt ==
    /\ pc \in {"main", "analyze", "proceed", "batch", "recover", "missing",
               "conflict_auto", "options"}
    /\ asked' = FALSE
    /\ ~NoSaved
    /\ history_file' = SaveHistory(applied_commits)
    /\ cache_file' = dep_cache
    /\ exit_after' = "interrupt"
    /\ pc' = "finish"
    /\ stack' = <<>>
    /\ rec' = NoRec
    /\ git_log' = <<>>
    /\ commit_list' = <<>>
    /\ batch_idx' = 0
    /\ success_count' = 0
    /\ fail_count' = 0
    /\ UNCHANGED <<flagVars, initial_commit, cherry_pick_queue, final_commits,
                   analyzed_commits, applied_commits, skipped_commits, stop_analysis,
                   file_renames, processed_missing_files, declined, created_files,
                   dep_cache, commits_file, idx, in_progress, replayed, surprises>>

\* main's finally block, 2419-2427 (it also runs when sys.exit unwinds)
Finish ==
    /\ pc = "finish"
    /\ asked' = FALSE
    /\ history_file' = SaveHistory(applied_commits)
    /\ cache_file' = dep_cache
    /\ pc' = "exit"
    /\ UNCHANGED <<flagVars, analysisVars, batchVars, initial_commit,
                   applied_commits, skipped_commits, commits_file, idx, rec,
                   exit_after, in_progress, git_log, replayed, surprises>>

\* the hook registered with atexit, 67: clean_temp_files
AtExit ==
    /\ pc = "exit"
    /\ asked' = FALSE
    /\ cache_file' = CleanTemp(cache_file)
    /\ pc' = "done"
    /\ UNCHANGED <<flagVars, analysisVars, batchVars, initial_commit,
                   applied_commits, skipped_commits, history_file, commits_file,
                   idx, rec, exit_after, in_progress, git_log, replayed, surprises>>

\* ------------------------------------ handle_cherry_pick_error, 1260-1424
\* a recovery that never records its success
MarkNever(ok, commit) == applied_commits

\* if <the recovery step succeeded>: applied_commits.add(commit), 1338-1340,
\* 1397-1398 and 1406-1408
MarkApplied(ok, commit) ==
    IF ok THEN applied_commits \cup {commit} ELSE applied_commits

NonEmptyFileLists == DistinctSeqs(Files, MaxMissing) \ {<<>>}

\* file_renames after any of the paths in files got a local path (the
\* renames apply_patch_with_rename_handling detects itself, 1844-1855)
RenameUpdates(ren, files) ==
    {r \in [Files -> Files \cup {None}] :
        \A f \in Files : r[f] # ren[f] => f \in files /\ r[f] \in LocalNames(f)}

\* file_renames[file] = similar_files[0][0] for each file that has one
WithSimilar(ren, sim) ==
    [f \in Files |-> IF f \in DOMAIN sim /\ sim[f] # None THEN sim[f] ELSE ren[f]]

\* a handler whose return ends the batch
ReturnEndsBatch == IF rec.ret = "batch" THEN "finish" ELSE rec.ret

\* leaving handle_cherry_pick_error for its caller
ReturnTo == rec.ret

\* the automatic strategies, 1265-1286: what they leave behind
StrategyResults ==
    IF ~auto_mode
    THEN {[done |-> FALSE, tree |-> in_progress, log |-> <<>>]}
    ELSE UNION {
           IF o1.ok
           THEN {[done |-> TRUE, tree |-> o1.tree,
                  log |-> <<Op("abort", rec.commit, TRUE),
                            Op("pick", rec.commit, TRUE)>>]}
           ELSE {[done |-> o2.ok, tree |-> o2.tree,
                  log |-> <<Op("abort", rec.commit, TRUE),
                            Op("pick", rec.commit, FALSE),
                            Op("abort", rec.commit, TRUE),
                            Op("pick", rec.commit, o2.ok)>>] :
                    o2 \in ReplayOutcomes(AfterAbort(o1.tree))}
           : o1 \in ReplayOutcomes(AfterAbort(in_progress))}

\* what `git status` and `git diff --diff-filter=U` report, 1290-1292; unmerged
\* paths exist only on a tree that is not clean
Classes(tree) ==
    {[kind |-> "missing", files |-> fl] : fl \in NonEmptyFileLists}
    \cup (IF tree = "clean" THEN {}
          ELSE {[kind |-> "conflict", files |-> fl] : fl \in NonEmptyFileLists})
    \cup {[kind |-> "unknown", files |-> <<>>]}

\* the classes reported for the failure at hand: one that the tree forced (a
\* replay refused because the tree was not clean) names paths only while
\* surprises < budget
Reported(tree) ==
    IF rec.forced
    THEN Answers({[kind |-> "unknown", files |-> <<>>]}, Classes(tree), surprises)
    ELSE Classes(tree)

\* entry of the handler: the strategies in automatic mode, then the
\* classification of the failure, 1260-1304 and 1420-1424
RecoverEntry ==
    /\ pc = "recover"
    /\ asked' = FALSE
    /\ \E pre \in StrategyResults :
          IF pre.done
          THEN /\ applied_commits' = applied_commits \cup {rec.commit}
               /\ git_log' = git_log \o pre.log
               /\ in_progress' = pre.tree
               /\ pc' = ReturnTo
               /\ rec' = NoRec
               /\ UNCHANGED surprises
          ELSE \E cls \in Reported(pre.tree) :
               /\ applied_commits' = applied_commits
               /\ surprises' = Surprised(rec.forced /\ cls.kind # "unknown", surprises)
               /\ CASE cls.kind = "missing" ->
                         /\ git_log' = git_log \o pre.log
                                          \o <<Op("abort", rec.commit, TRUE)>>
                         /\ in_progress' = AfterAbort(pre.tree)
                         /\ rec' = [rec EXCEPT !.missing = cls.files, !.handled = 0,
                                                !.named = Len(cls.files)]
                         /\ pc' = "missing"
                    [] cls.kind = "conflict" ->
                         /\ git_log' = git_log \o pre.log
                         /\ in_progress' = pre.tree
                         /\ rec' = [rec EXCEPT !.failed = cls.files]
                         /\ pc' = IF auto_mode THEN "conflict_auto" ELSE "options"
                    [] OTHER ->
                         /\ git_log' = git_log \o pre.log
                                          \o <<Op("abort", rec.commit, TRUE)>>
                         /\ in_progress' = AfterAbort(pre.tree)
                         /\ pc' = ReturnTo
                         /\ rec' = NoRec
    /\ UNCHANGED <<flagVars, cache_file, analysisVars, batchVars, initial_commit,
                   skipped_commits, history_file, commits_file, idx, exit_after,
                   replayed>>

\* the choices of ask_to_search_file, 363-395; automatic mode searches
SearchChoices == IF auto_mode THEN {"Buscar"}
                 ELSE {"Buscar", "Ignorar", "Aplicar", "Cancelar"}

\* the choices of handle_missing_file, 1494-1509; automatic mode adds the chain
MissingChoices == IF auto_mode THEN {"todos"}
                  ELSE {"todos", "solo", "especificar", "crear", "saltar"}

\* one iteration of the loop over not_exist_files, 1307-1320, with
\* handle_missing_file, 1477-1569
MissingStep ==
    /\ pc = "missing"
    /\ asked' = SelectOption
    /\ rec.missing # <<>>
    /\ LET missing_file == Head(rec.missing)
           next(h) == [rec EXCEPT !.missing = Tail(rec.missing),
                                  !.handled = rec.handled + h]
       IN \E choice \in SearchChoices :
          CASE choice = "Cancelar" ->
                  /\ pc' = "finish"
                  /\ exit_after' = "exit1"
                  /\ rec' = NoRec
                  /\ UNCHANGED <<final_commits, cherry_pick_queue, created_files,
                                 file_renames, stop_analysis>>
            [] choice = "Aplicar" /\ final_commits # <<>> ->
                  /\ stop_analysis' = TRUE
                  /\ pc' = "proceed"
                  /\ exit_after' = "exit0"
                  /\ rec' = NoRec
                  /\ UNCHANGED <<final_commits, cherry_pick_queue, created_files,
                                 file_renames>>
            [] choice \in {"Ignorar", "Aplicar"} /\ (choice = "Aplicar" => final_commits = <<>>) ->
                  /\ rec' = next(0)
                  /\ pc' = "missing"
                  /\ UNCHANGED <<final_commits, cherry_pick_queue, created_files,
                                 file_renames, stop_analysis, exit_after>>
            [] OTHER ->
                  \E adding_commit \in AddingCommits(missing_file) :
                  /\ pc' = "missing"
                  /\ UNCHANGED <<stop_analysis, exit_after>>
                  /\ IF adding_commit = None
                     THEN /\ rec' = next(0)
                          /\ UNCHANGED <<final_commits, cherry_pick_queue,
                                         created_files, file_renames>>
                     ELSE \E how \in MissingChoices :
                          LET commit_chain == HistoryChain(adding_commit, rec.commit,
                                                           Touch(missing_file))
                          IN CASE how = "todos" ->
                                    /\ final_commits' = AddAllOnce(final_commits, commit_chain)
                                    /\ cherry_pick_queue' = AddAllOnce(cherry_pick_queue, commit_chain)
                                    /\ created_files' = created_files \cup {missing_file}
                                    /\ rec' = next(1)
                                    /\ UNCHANGED file_renames
                               [] how = "solo" ->
                                    /\ final_commits' = AddOnce(final_commits, adding_commit)
                                    /\ cherry_pick_queue' = AddOnce(cherry_pick_queue, adding_commit)
                                    /\ created_files' = created_files \cup {missing_file}
                                    /\ rec' = next(1)
                                    /\ UNCHANGED file_renames
                               [] how = "especificar" ->
                                    /\ \E local_name \in LocalNames(missing_file) :
                                          file_renames' = [file_renames EXCEPT ![missing_file] = local_name]
                                    /\ rec' = next(1)
                                    /\ UNCHANGED <<final_commits, cherry_pick_queue, created_files>>
                               [] how = "crear" ->
                                    /\ \E file_content \in BOOLEAN :
                                          /\ created_files' = IF file_content
                                                THEN created_files \cup {missing_file}
                                                ELSE created_files
                                          /\ rec' = next(IF file_content THEN 1 ELSE 0)
                                    /\ UNCHANGED <<final_commits, cherry_pick_queue, file_renames>>
                               [] OTHER ->
                                    /\ rec' = next(0)
                                    /\ UNCHANGED <<final_commits, cherry_pick_queue,
                                                   created_files, file_renames>>
    /\ UNCHANGED <<flagVars, cache_file, batchVars, initial_commit, analyzed_commits,
                   applied_commits, skipped_commits, processed_missing_files, declined,
                   dep_cache, stack, history_file, commits_file, idx, in_progress,
                   git_log, replayed, surprises>>

\* a handler that retries whatever the loop achieved
HandledIgnored == FALSE

\* a handler that gives up as soon as one of the named paths was not handled
SomeNotHandled == rec.handled < rec.named

\* `if missing_handled_count == 0 and len(not_exist_files) > 0`, 1322-1325
NothingHandled == rec.handled = 0 /\ rec.named > 0

\* after the loop: give up when nothing was handled, else retry once, 1322-1344
MissingDone ==
    /\ pc = "missing"
    /\ asked' = FALSE
    /\ rec.missing = <<>>
    /\ IF NothingHandled
       THEN UNCHANGED <<applied_commits, in_progress, git_log>>
       ELSE \E out \in ReplayOutcomes(in_progress) :
            /\ git_log' = Append(git_log, Op("pick", rec.commit, out.ok))
            /\ in_progress' = out.tree
            /\ applied_commits' = MarkApplied(out.ok, rec.commit)
    /\ pc' = ReturnTo
    /\ rec' = NoRec
    /\ UNCHANGED <<flagVars, cache_file, analysisVars, batchVars, initial_commit,
                   skipped_commits, history_file, commits_file, idx, exit_after,
                   replayed, surprises>>

\* ----------------------- apply_patch_with_rename_handling, 1749-2057
\* Each way through the function: what it returns, whether `git apply` took
\* the patch, how its last `git commit` ended and the tree it leaves.
PatchPaths ==
    {[name |-> "empty_patch",        ret |-> TRUE,  apply |-> FALSE, commit |-> "none", tree |-> "same"],
     [name |-> "conflict_commit_ok", ret |-> TRUE,  apply |-> FALSE, commit |-> "ok",   tree |-> "clean"],
     [name |-> "conflict_commit_ko", ret |-> FALSE, apply |-> FALSE, commit |-> "ko",   tree |-> "dirty"],
     [name |-> "conflict_left",      ret |-> FALSE, apply |-> FALSE, commit |-> "none", tree |-> "dirty"],
     [name |-> "recreate_commit_ok", ret |-> TRUE,  apply |-> FALSE, commit |-> "ok",   tree |-> "clean"],
     [name |-> "recreate_commit_ko", ret |-> FALSE, apply |-> FALSE, commit |-> "ko",   tree |-> "dirty"],
     [name |-> "recreate_failed",    ret |-> FALSE, apply |-> FALSE, commit |-> "none", tree |-> "dirty"],
     [name |-> "clean_nothing",      ret |-> TRUE,  apply |-> TRUE,  commit |-> "none", tree |-> "clean"],
     [name |-> "clean_commit_ok",    ret |-> TRUE,  apply |-> TRUE,  commit |-> "ok",   tree |-> "clean"],
     [name |-> "clean_fallback_ok",  ret |-> TRUE,  apply |-> TRUE,  commit |-> "ok",   tree |-> "clean"],
     [name |-> "clean_fallback_ko",  ret |-> TRUE,  apply |-> TRUE,  commit |-> "ko",   tree |-> "dirty"]}

\* the operations of one path, as log entries for commit: the abort of 1824,
\* `git apply` (1880) and the last `git commit` of the path, if it has one
PatchLog(path, commit) ==
    IF path.name = "empty_patch" THEN <<>>
    ELSE <<Op("abort", commit, TRUE), Op("apply", commit, path.apply)>>
         \o (IF path.commit = "none" THEN <<>>
             ELSE <<Op("commit", commit, path.commit = "ok")>>)

PatchTree(path, tree) == IF path.tree = "same" THEN tree ELSE path.tree

\* ----------------------------------------- resume_cherry_pick, 2073-2126
\* `git cherry-pick --continue` completes only a replay that is in progress;
\* the function reports whether it did
ResumeResults(tree) ==
    IF tree = "picking"
    THEN {[ret |-> TRUE, tree |-> "clean"], [ret |-> FALSE, tree |-> "picking"]}
    ELSE {[ret |-> FALSE, tree |-> tree]}

\* the conflict branch in automatic mode, 1352-1385
ConflictAuto ==
    /\ pc = "conflict_auto"
    /\ asked' = FALSE
    /\ \/ \* `git cherry-pick --continue` reports success, 1357-1368
          /\ in_progress = "picking"
          /\ applied_commits' = applied_commits \cup {rec.commit}
          /\ git_log' = Append(git_log, Op("continue", rec.commit, TRUE))
          /\ in_progress' = "clean"
          /\ pc' = ReturnTo
          /\ rec' = NoRec
          /\ UNCHANGED file_renames
       \/ \* it does not: abort, then map each file to its most similar one
          \E sim \in Similar(rec.failed), tried \in BOOLEAN :
          LET handled == \A f \in Range(rec.failed) : sim[f] # None
              ren == WithSimilar(file_renames, sim)
              log0 == (IF tried THEN <<Op("continue", rec.commit, FALSE)>> ELSE <<>>)
                      \o <<Op("abort", rec.commit, TRUE)>>
          IN IF ~handled
             THEN /\ file_renames' = ren
                  /\ git_log' = git_log \o log0
                  /\ in_progress' = AfterAbort(in_progress)
                  /\ pc' = "options"
                  /\ UNCHANGED <<rec, applied_commits>>
             ELSE \E path \in PatchPaths, ren2 \in RenameUpdates(ren, Files) :
                  /\ file_renames' = IF path.name = "empty_patch" THEN ren ELSE ren2
                  /\ git_log' = git_log \o log0 \o PatchLog(path, rec.commit)
                  /\ in_progress' = PatchTree(path, AfterAbort(in_progress))
                  /\ applied_commits' = applied_commits
                  /\ IF path.ret
                     THEN pc' = ReturnTo /\ rec' = NoRec
                     ELSE pc' = "options" /\ rec' = rec
    /\ UNCHANGED <<flagVars, cache_file, batchVars, initial_commit, cherry_pick_queue,
                   final_commits, analyzed_commits, skipped_commits, stop_analysis,
                   processed_missing_files, declined, created_files, dep_cache, stack,
                   history_file, commits_file, idx, exit_after, replayed, surprises>>

\* the three options, 1388-1419; automatic mode takes the first
ConflictChoices == IF auto_mode THEN {"Resolver"}
                   ELSE {"Resolver", "Intentar", "Abortar"}

ConflictOptions ==
    /\ pc = "options"
    /\ asked' = SelectOption
    /\ pc' = ReturnTo
    /\ rec' = NoRec
    /\ \E choice \in ConflictChoices :
       CASE choice = "Resolver" ->
               \E r \in ResumeResults(in_progress) :
               /\ git_log' = Append(git_log, Op("continue", rec.commit, r.ret))
               /\ in_progress' = r.tree
               /\ applied_commits' = MarkApplied(r.ret, rec.commit)
               /\ UNCHANGED file_renames
         [] choice = "Intentar" ->
               \* ask_file_renames_from_errors, then the patch
               \E sim \in Similar(rec.failed), handled \in BOOLEAN :
               LET ren == WithSimilar(file_renames, sim) IN
               IF ~handled
               THEN /\ file_renames' = ren
                    /\ git_log' = Append(git_log, Op("abort", rec.commit, TRUE))
                    /\ in_progress' = AfterAbort(in_progress)
                    /\ UNCHANGED applied_commits
               ELSE \E path \in PatchPaths, ren2 \in RenameUpdates(ren, Files) :
                    /\ file_renames' = IF path.name = "empty_patch" THEN ren ELSE ren2
                    /\ git_log' = git_log \o <<Op("abort", rec.commit, TRUE)>>
                                          \o PatchLog(path, rec.commit)
                    /\ in_progress' = PatchTree(path, AfterAbort(in_progress))
                    /\ applied_commits' = MarkApplied(path.ret, rec.commit)
         [] OTHER ->
               /\ git_log' = Append(git_log, Op("abort", rec.commit, TRUE))
               /\ in_progress' = AfterAbort(in_progress)
               /\ UNCHANGED <<applied_commits, file_renames>>
    /\ UNCHANGED <<flagVars, cache_file, batchVars, initial_commit, cherry_pick_queue,
                   final_commits, analyzed_commits, skipped_commits, stop_analysis,
                   processed_missing_files, declined, created_files, dep_cache, stack,
                   history_file, commits_file, idx, exit_after, replayed, surprises>>

\* ------------------------------------------------ analyze_commit, 872-988
Top == stack[Len(stack)]

SetTop(fr) == [stack EXCEPT ![Len(stack)] = fr]

Pop == SubSeq(stack, 1, Len(stack) - 1)

\* where control goes when analyze_commit returns to process_commit
AfterStack(st) == IF st = <<>> THEN "main" ELSE "analyze"

\* file_renames.get(file, file)
Actual(file) == IF file_renames[file] = None THEN file ELSE file_renames[file]

\* get_blame_and_grep_dependencies, 597-613 and 768-776: the cached list, the
\* empty list without a cache entry when the content is unavailable, or the
\* suspects without the commit itself, cached.  found is what blame, the
\* symbol search, the includes and the rename history report.
Dependencies(cache, commit, file, content, found) ==
    IF cache[<<commit, file>>] # NoEntry
    THEN [deps |-> cache[<<commit, file>>], cache |-> cache]
    ELSE IF ~content THEN [deps |-> <<>>, cache |-> cache]
    ELSE LET suspects_list == SelectSeq(found, LAMBDA d : d # commit)
         IN [deps |-> suspects_list,
             cache |-> [cache EXCEPT ![<<commit, file>>] = suspects_list]]

\* the answers get_blame_and_grep_dependencies can get for a commit
FoundLists == DistinctSeqs(Commits, MaxDeps)

\* relevant_deps, 970
Relevant(deps, commit, analyzed, applied) ==
    SelectSeq(deps, LAMBDA d : d \notin analyzed /\ d \notin applied /\ d # commit)

AnalysisChoices3 == IF auto_mode THEN {1} ELSE {1, 2, 3}
AnalysisChoices2 == IF auto_mode THEN {1} ELSE {1, 2}

outsideAnalysis == <<flagVars, cache_file, batchVars, initial_commit, applied_commits,
                     skipped_commits, history_file, commits_file, idx, rec,
                     in_progress, git_log, replayed>>

\* the current file of the innermost frame: is it missing, and what to do
\* about it, 891-952
AnalyzeMissing ==
    /\ pc = "analyze"
    /\ Top.ph = "file"
    /\ Top.files # <<>>
    /\ LET file == Head(Top.files)
           actual_file == Actual(file)
           key == <<file, Top.c>>
           nextFile == SetTop([Top EXCEPT !.files = Tail(Top.files)])
           toLast == SetTop([Top EXCEPT !.ph = "last", !.actual = actual_file])
           Continue == /\ stack' = nextFile
                       /\ pc' = "analyze"
                       /\ UNCHANGED <<cherry_pick_queue, final_commits, stop_analysis,
                                      file_renames, created_files, exit_after>>
           Stop == /\ stop_analysis' = TRUE
                   /\ stack' = Pop
                   /\ pc' = AfterStack(Pop)
                   /\ UNCHANGED <<cherry_pick_queue, final_commits, file_renames,
                                  created_files, exit_after>>
           Add(chain) == /\ final_commits' = AddAllOnce(final_commits, chain)
                         /\ cherry_pick_queue' = AddAllOnce(cherry_pick_queue, chain)
                         /\ created_files' = created_files \cup {actual_file}
                         /\ stack' = toLast
                         /\ pc' = "analyze"
                         /\ UNCHANGED <<stop_analysis, file_renames, exit_after>>
       IN IF actual_file \in created_files
          THEN Continue /\ asked' = FALSE
                        /\ UNCHANGED <<processed_missing_files, declined, surprises>>
          ELSE \E file_exists \in Answers({TRUE}, {FALSE}, surprises) :
               /\ surprises' = Surprised(file_exists # TRUE, surprises)
               /\ IF file_exists
                  THEN /\ stack' = toLast
                       /\ pc' = "analyze"
                       /\ asked' = FALSE
                       /\ UNCHANGED <<cherry_pick_queue, final_commits, stop_analysis,
                                      file_renames, created_files, exit_after,
                                      processed_missing_files, declined>>
                  ELSE IF key \in processed_missing_files
                  THEN Continue /\ asked' = FALSE
                                /\ UNCHANGED <<processed_missing_files, declined>>
                  ELSE /\ processed_missing_files' = processed_missing_files \cup {key}
                       /\ \E choice \in SearchChoices :
                          /\ declined' = IF choice = "Ignorar" THEN declined \cup {Top.c}
                                          ELSE declined
                          /\ CASE choice = "Ignorar" -> Continue /\ asked' = SelectOption
                               [] choice = "Aplicar" ->
                                    \* final_commits holds the commit under analysis;
                                    \* ask_to_proceed runs inside the calls in flight
                                    /\ stop_analysis' = TRUE
                                    /\ pc' = "proceed"
                                    /\ exit_after' = "exit0"
                                    /\ asked' = SelectOption
                                    /\ UNCHANGED <<cherry_pick_queue, final_commits,
                                                   file_renames, created_files, stack>>
                               [] choice = "Cancelar" ->
                                    /\ pc' = "finish"
                                    /\ exit_after' = "exit1"
                                    /\ stack' = <<>>
                                    /\ asked' = SelectOption
                                    /\ UNCHANGED <<cherry_pick_queue, final_commits,
                                                   stop_analysis, file_renames, created_files>>
                               [] OTHER ->
                                    \E adding_commit \in AddingCommits(file) :
                                    IF adding_commit # None
                                    THEN LET commit_chain == HistoryChain(adding_commit, Top.c,
                                                                          Touch(file))
                                         IN /\ asked' = SelectOption
                                            /\ IF Len(commit_chain) > 1
                                               THEN \E option \in AnalysisChoices3 :
                                                    CASE option = 1 -> Add(commit_chain)
                                                      [] option = 2 -> Add(<<adding_commit>>)
                                                      [] OTHER -> Stop
                                               ELSE \E option \in AnalysisChoices2 :
                                                    IF option = 1 THEN Add(<<adding_commit>>) ELSE Stop
                                    ELSE \E option \in AnalysisChoices3 :
                                         CASE option = 1 ->
                                                /\ \E local_name \in LocalNames(actual_file) :
                                                      file_renames' = [file_renames EXCEPT ![actual_file] = local_name]
                                                /\ stack' = toLast
                                                /\ pc' = "analyze"
                                                \* `local_name = input(...)`, 947, is
                                                \* read in every mode
                                                /\ asked' = TRUE
                                                /\ UNCHANGED <<cherry_pick_queue, final_commits,
                                                               stop_analysis, created_files, exit_after>>
                                           [] option = 2 ->
                                                /\ stack' = toLast
                                                /\ pc' = "analyze"
                                                /\ asked' = SelectOption
                                                /\ UNCHANGED <<cherry_pick_queue, final_commits,
                                                               stop_analysis, file_renames,
                                                               created_files, exit_after>>
                                           [] OTHER -> Stop /\ asked' = SelectOption
    /\ UNCHANGED <<outsideAnalysis, analyzed_commits, dep_cache>>

\* the last commit that touched the file, 953-966
AnalyzeLast ==
    /\ pc = "analyze"
    /\ Top.ph = "last"
    /\ \E last_commit \in Answers({None}, LastCommits(Top.actual), surprises) :
          /\ surprises' = Surprised(last_commit # None, surprises)
          /\ IF /\ last_commit # None
                /\ last_commit # Top.c
                /\ last_commit \notin analyzed_commits
                /\ last_commit \notin applied_commits
             THEN \E option \in AnalysisChoices2 :
                  /\ asked' = SelectOption
                  /\ IF option = 1
                     THEN /\ final_commits' = AddOnce(final_commits, last_commit)
                          /\ cherry_pick_queue' = AddOnce(cherry_pick_queue, last_commit)
                          /\ analyzed_commits' = analyzed_commits \cup {last_commit}
                          /\ stack' = Append(SetTop([Top EXCEPT !.ph = "lastret"]),
                                             Frame(last_commit, CommitFiles(last_commit)))
                          /\ pc' = "analyze"
                          /\ UNCHANGED stop_analysis
                     ELSE /\ stop_analysis' = TRUE
                          /\ stack' = Pop
                          /\ pc' = AfterStack(Pop)
                          /\ UNCHANGED <<final_commits, cherry_pick_queue, analyzed_commits>>
             ELSE /\ stack' = SetTop([Top EXCEPT !.ph = "deps"])
                  /\ pc' = "analyze"
                  /\ asked' = FALSE
                  /\ UNCHANGED <<final_commits, cherry_pick_queue, analyzed_commits,
                                 stop_analysis>>
    /\ UNCHANGED <<outsideAnalysis, file_renames, processed_missing_files, declined,
                   created_files, dep_cache, exit_after>>

\* a caller that goes on after a stopped analysis
NeverUnwinds == FALSE

\* `if stop_analysis: return` after a recursive call, 962-963 and 982-983
Unwinds == stop_analysis

\* back from analyze_commit(last_commit) or analyze_commit(dep_commit): unwind
\* when the analysis was stopped, 962-963 and 982-983
AnalyzeResume ==
    /\ pc = "analyze"
    /\ asked' = FALSE
    /\ Top.ph \in {"lastret", "depret"}
    /\ IF Unwinds
       THEN /\ stack' = Pop
            /\ pc' = AfterStack(Pop)
       ELSE /\ stack' = SetTop(IF Top.ph = "lastret"
                               THEN [Top EXCEPT !.ph = "deps"]
                               ELSE [Top EXCEPT !.ph = "dep", !.deps = Tail(Top.deps)])
            /\ pc' = "analyze"
    /\ UNCHANGED <<outsideAnalysis, surprises, cherry_pick_queue, final_commits,
                   analyzed_commits, stop_analysis, file_renames,
                   processed_missing_files, declined, created_files, dep_cache, exit_after>>

\* dependencies and relevant_deps of the file, 967-970
AnalyzeDeps ==
    /\ pc = "analyze"
    /\ asked' = FALSE
    /\ Top.ph = "deps"
    /\ \E content \in BOOLEAN,
          found \in Answers({<<>>}, FoundLists, surprises) :
          LET r == Dependencies(dep_cache, Top.c, Top.actual, content, found)
          IN /\ surprises' = Surprised(found # <<>>, surprises)
             /\ dep_cache' = r.cache
             /\ stack' = SetTop([Top EXCEPT !.ph = "dep",
                    !.deps = Relevant(r.deps, Top.c, analyzed_commits, applied_commits)])
    /\ pc' = "analyze"
    /\ UNCHANGED <<outsideAnalysis, cherry_pick_queue, final_commits,
                   analyzed_commits, stop_analysis, file_renames,
                   processed_missing_files, declined, created_files, exit_after>>

\* dependencies that are always added without a question
AlwaysAutoAdd == TRUE

\* `if config["auto_add_dependencies"]`, 970
AutoAdd == auto_add_dependencies

\* one iteration of the loop over relevant_deps, or its end, 971-988
AnalyzeDep ==
    /\ pc = "analyze"
    /\ Top.ph = "dep"
    /\ IF Top.deps = <<>>
       THEN /\ stack' = SetTop([Top EXCEPT !.ph = "file", !.files = Tail(Top.files)])
            /\ pc' = "analyze"
            /\ asked' = FALSE
            /\ UNCHANGED <<final_commits, cherry_pick_queue, analyzed_commits,
                           stop_analysis, added_suspects>>
       ELSE LET dep_commit == Head(Top.deps)
            IN IF AutoAdd
               THEN /\ asked' = FALSE
                    /\ added_suspects' = added_suspects \cup {<<stack[1].c, dep_commit>>}
                    /\ final_commits' = AddOnce(final_commits, dep_commit)
                    /\ cherry_pick_queue' = AddOnce(cherry_pick_queue, dep_commit)
                    /\ stack' = SetTop([Top EXCEPT !.deps = Tail(Top.deps)])
                    /\ pc' = "analyze"
                    /\ UNCHANGED <<analyzed_commits, stop_analysis>>
               ELSE \E choice \in AnalysisChoices2 :
                    /\ asked' = SelectOption
                    /\ IF choice = 1
                       THEN /\ added_suspects' = added_suspects \cup {<<stack[1].c, dep_commit>>}
                            /\ final_commits' = AddOnce(final_commits, dep_commit)
                            /\ cherry_pick_queue' = AddOnce(cherry_pick_queue, dep_commit)
                            /\ pc' = "analyze"
                            /\ UNCHANGED stop_analysis
                            /\ IF EnterNoop(dep_commit)
                               THEN /\ stack' = SetTop([Top EXCEPT !.deps = Tail(Top.deps)])
                                    /\ UNCHANGED analyzed_commits
                               ELSE /\ analyzed_commits' = analyzed_commits \cup {dep_commit}
                                    /\ stack' = Append(SetTop([Top EXCEPT !.ph = "depret"]),
                                                       Frame(dep_commit, CommitFiles(dep_commit)))
                       ELSE /\ stop_analysis' = TRUE
                            /\ stack' = Pop
                            /\ pc' = AfterStack(Pop)
                            /\ UNCHANGED <<final_commits, cherry_pick_queue, analyzed_commits,
                                           added_suspects>>
    /\ UNCHANGED <<givenVars, cache_file, batchVars, initial_commit, applied_commits,
                   skipped_commits, history_file, commits_file, idx, rec,
                   in_progress, git_log, replayed>>
    /\ UNCHANGED <<surprises, file_renames, processed_missing_files, declined,
                   created_files, dep_cache, exit_after>>

\* all files processed: analyze_commit returns
AnalyzeReturn ==
    /\ pc = "analyze"
    /\ asked' = FALSE
    /\ Top.ph = "file"
    /\ Top.files = <<>>
    /\ stack' = Pop
    /\ pc' = AfterStack(Pop)
    /\ UNCHANGED <<outsideAnalysis, surprises, cherry_pick_queue, final_commits,
                   analyzed_commits, stop_analysis, file_renames,
                   processed_missing_files, declined, created_files, dep_cache, exit_after>>

\* ---------------------------------------------------------------- the run
Next ==
    \/ NoSavedCommits
    \/ MainLoop
    \/ ProcessAnalyze
    \/ ProcessDirect
    \/ ProcessEdit
    \/ ProcessOmit
    \/ AnalyzeMissing
    \/ AnalyzeLast
    \/ AnalyzeResume
    \/ AnalyzeDeps
    \/ AnalyzeDep
    \/ AnalyzeReturn
    \/ ProceedApply
    \/ ProceedLeave
    \/ BatchStep
    \/ BatchEnd
    \/ RecoverEntry
    \/ MissingStep
    \/ MissingDone
    \/ ConflictAuto
    \/ ConflictOptions
    \/ Interrupt
    \/ Finish
    \/ AtExit

Spec == Init /\ [][Next]_vars

DeepSpec == DeepInit /\ [][Next]_vars

\* the variables of a run of the program
runVars == <<mode, auto_mode, dry_run, auto_add_dependencies, initial_commits,
             initial_commit, cherry_pick_queue, final_commits, analyzed_commits,
             applied_commits, skipped_commits, stop_analysis, file_renames,
             processed_missing_files, declined, created_files, dep_cache,
             history_file, cache_file, commits_file, pc, idx, stack, commit_list,
             batch_idx, success_count, fail_count, rec, exit_after, in_progress,
             git_log, replayed, asked, budget, surprises, added_suspects>>

\* a process that does nothing but call calculate_similarity
Idle ==
    /\ Start
    /\ budget = 0
    /\ mode = "commits"
    /\ initial_commits = <<1>>
    /\ ~auto_mode /\ ~dry_run /\ ~auto_add_dependencies
    /\ history_file = {}
    /\ cache_file = NoFile

\* one call of calculate_similarity on any two strings
SimInit ==
    /\ Idle
    /\ str1 \in Strings
    /\ str2 \in Strings
    /\ prev_row = <<>>
    /\ row_i = 0
    /\ NoFiles
    /\ NoTools

Call ==
    /\ similarity = NotComputed
    /\ similarity' = CalculateSimilarity(str1, str2)
    /\ UNCHANGED <<runVars, toolVars, findVars, str1, str2, prev_row, row_i>>

SimNext == Call

SimSpec == SimInit /\ [][SimNext]_vars

\* ---- the same call on names as long as real file names, one row of the
\* loop at 548-555 at a time
LongStrings == {[k \in 1..LongLen |-> "a"], [k \in 1..ShortLen |-> "a"]}

\* str1 and str2 after `if m < n: return calculate_similarity(str2, str1)`,
\* 539-541
Longer == IF Len(str1) < Len(str2) THEN str2 ELSE str1
Shorter == IF Len(str1) < Len(str2) THEN str1 ELSE str2

\* both arguments are non-empty: the call is at `prev_row = range(n + 1)`, 546
LongInit ==
    /\ Idle
    /\ str1 \in LongStrings
    /\ str2 \in LongStrings
    /\ prev_row = [k \in 1..(Len(Shorter) + 1) |-> k - 1]
    /\ row_i = 1
    /\ NoFiles
    /\ NoTools

\* one iteration of `for i, c1 in enumerate(str1)`, 548-555
Row ==
    /\ similarity = NotComputed
    /\ row_i <= Len(Longer)
    /\ prev_row' = InnerLoop(<<row_i>>, prev_row, Longer[row_i], Shorter, 1)
    /\ row_i' = row_i + 1
    /\ UNCHANGED <<runVars, toolVars, findVars, str1, str2, similarity>>

\* 556-559, after the loop
Return ==
    /\ similarity = NotComputed
    /\ row_i > Len(Longer)
    /\ LET distance == prev_row[Len(Shorter) + 1]
           max_len == Len(Longer)
       IN similarity' = Percent(max_len - distance, max_len)
    /\ UNCHANGED <<runVars, toolVars, findVars, str1, str2, prev_row, row_i>>

LongNext == Row \/ Return

LongSpec == LongInit /\ [][LongNext]_vars

\* ---- calls of find_similar_files in a repository of a few files
DirA == <<"a">>
DirB == <<"b">>
Missing == <<"a", "b", "c", "d", "e", "f", ".", "c">>
\* the files a repository may hold, in the order of `git ls-files`
Repository ==
    << [dir |-> DirA, name |-> <<"a", "b", "c", "d", "e", "f", ".", "h">>],
       [dir |-> DirA, name |-> <<"x">>],
       [dir |-> DirB, name |-> <<"a", "b", "c", "d", "e", "f", ".", "h">>],
       [dir |-> DirB, name |-> <<"a", "b", "c", "d", "e", "g", ".", "c">>],
       [dir |-> DirB, name |-> <<"a", "b", "c", "d", ".", "c">>],
       [dir |-> DirB, name |-> <<"x", ".", "c">>] >>

\* the paths looked for: a file with an extension, and one without in the top
\* directory
Targets == {[dir |-> DirA, name |-> Missing], [dir |-> <<>>, name |-> <<"a", "b">>]}
Thresholds == {0, DefaultThreshold, 95, 100}

RECURSIVE Keep(_, _, _)
\* the files of list whose position is in the set, in their order
Keep(list, positions, k) ==
    IF k > Len(list) THEN <<>>
    ELSE (IF k \in positions THEN <<list[k]>> ELSE <<>>) \o Keep(list, positions, k + 1)

FindInit ==
    /\ Idle
    /\ NoCall
    /\ NoSearch
    /\ NoTools
    /\ \E positions \in SUBSET (1..Len(Repository)) : all_files = Keep(Repository, positions, 1)
    /\ threshold \in Thresholds

\* one call of find_similar_files, 476-533
FindSimilarFiles ==
    \E path \in Targets :
        /\ file_path' = path
        /\ results' = IF path \in DOMAIN similar_files_cache
                      THEN similar_files_cache[path]
                      ELSE SearchSimilarFiles(path, all_files, threshold)
        /\ similar_files_cache' =
               [p \in DOMAIN similar_files_cache \cup {path} |->
                   IF p = path THEN results' ELSE similar_files_cache[p]]
        /\ UNCHANGED <<runVars, toolVars, callVars, all_files, threshold>>

FindNext == FindSimilarFiles

FindSpec == FindInit /\ [][FindNext]_vars

\* ------------------------------------------------------------ properties
\* position of the first occurrence of x in s
FirstAt(s, x) == CHOOSE k \in 1..Len(s) : s[k] = x /\ \A j \in 1..(k - 1) : s[j] # x

\* plan holds the commits of final that are not skipped, each once, in the
\* order of their first occurrence in final
PlanOf(plan, final, skipped) ==
    /\ \A a, b \in 1..Len(plan) : a # b => plan[a] # plan[b]
    /\ Range(plan) = Range(final) \ skipped
    /\ \A a, b \in 1..Len(plan) :
          a < b => FirstAt(final, plan[a]) < FirstAt(final, plan[b])

\* the batch loop or the handling of a failure of one of its commits
InBatch ==
    \/ pc = "batch"
    \/ pc \in {"recover", "missing", "conflict_auto", "options"} /\ rec.ret = "batch"

\* the user, asked about a missing path during recovery, cancels the
\* operation or asks to apply at once, or interrupts the run from the keyboard
UserLeaves == (pc = "missing" /\ pc' \in {"finish", "proceed"}) \/ Interrupt

\* while the batch runs it ends only after its last commit was taken up, and
\* the commits handed to a replay are the plan's, one by one, in plan order
BatchGoesOn ==
    /\ pc' = "finish" => batch_idx > Len(commit_list)
    /\ replayed' # replayed =>
          /\ batch_idx <= Len(commit_list)
          /\ replayed' = replayed \cup {commit_list[batch_idx]}
          /\ batch_idx' = batch_idx + 1

\* C1: the plan apply_commits_in_order builds from final_commits and the
\* requested commits holds each commit at most once, in the order of first
\* occurrence, and holds no skipped commit.
C1_PlanOnceInOrder ==
    [][ProceedApply =>
          /\ PlanOf(commit_list', final_commits', skipped_commits)
          /\ Range(initial_commits) \ skipped_commits \subseteq Range(commit_list')]_vars

\* the plan was built from a list that held a skipped commit and a commit twice
\* over or more than one commit
C1_Witness ==
    /\ pc = "batch"
    /\ batch_idx = 1
    /\ Len(commit_list) >= 2
    /\ Range(final_commits) \cap skipped_commits # {}

\* C2: when the analysis of a commit finds a path missing and the whole
\* history chain is added, the plan lists the creation commit first, then the
\* later modifiers in chronological order, then the analysed commit last.
C2_ChainOldestFirst ==
    [][(AnalyzeMissing /\ Cardinality(Range(final_commits') \ Range(final_commits)) >= 2) =>
          LET plan == ApplyPlan(final_commits', initial_commits, skipped_commits)
              chain == ((Range(final_commits') \ Range(final_commits)) \cup {Top.c})
                           \cap Range(plan)
          IN \A x, y \in chain : x < y => FirstAt(plan, x) < FirstAt(plan, y)]_vars

\* C3: after a completed run every commit of applied_commits is in
\* final_commits.
C3_AppliedInFinal ==
    (pc = "done" /\ exit_after = "") => applied_commits \subseteq Range(final_commits)

\* C4, as stated: a failure while replaying a commit of the plan never ends the
\* batch; every later commit is still taken up, in plan order.
C4_BatchNeverEnds == [][InBatch => BatchGoesOn]_vars

\* C4, amended: the same, unless the user, asked about a missing path of the
\* failed commit, cancels the operation or asks to apply at once, or
\* interrupts the run.
C4_BatchEndsOnlyOnRequest == [][(InBatch /\ ~UserLeaves) => BatchGoesOn]_vars

\* the first commit of the plan failed and was not applied, and the second
\* was handed to a replay
C4_Witness ==
    /\ pc = "batch"
    /\ batch_idx = 3
    /\ commit_list[1] \in replayed \ applied_commits
    /\ commit_list[2] \in replayed

\* C5: when the handling of a failed commit ends without the commit applied,
\* no replay is left in progress: the tree is clean.
C5_NoReplayLeft ==
    [][(/\ pc \in {"recover", "missing", "conflict_auto", "options"}
        /\ pc' = rec.ret
        /\ rec.commit \notin applied_commits') => in_progress' = "clean"]_vars

\* C6: a commit for which the user ignored a missing path stays in
\* final_commits and, unless the commit itself is skipped, in the plan; once
\* the batch has taken up all of the plan it was handed to a replay. A commit
\* whose missing paths come up during recovery was handed to one already.
C6_DeclinedStillReplayed ==
    /\ \A c \in declined : Contains(final_commits, c)
    /\ InBatch => \A c \in declined \ skipped_commits : Contains(commit_list, c)
    /\ (pc \in {"finish", "done"} /\ batch_idx >= 1 /\ batch_idx > Len(commit_list)) =>
          declined \ skipped_commits \subseteq replayed
    /\ pc = "missing" => rec.commit \in replayed

\* a run has ended in which a commit with an ignored missing path was replayed
C6_Witness == pc = "done" /\ declined \cap replayed # {}

\* `git cherry-pick --continue` succeeds for the user who chose to resolve
\* the conflicts by hand
ResumedOk ==
    /\ pc = "options"
    /\ git_log' = Append(git_log, Op("continue", rec.commit, TRUE))

C8_DryRunApplyIsInert ==
    [][(ProceedApply /\ dry_run) =>
          /\ applied_commits' = applied_commits
          /\ replayed' = replayed
          /\ in_progress' = in_progress
          /\ pc' = "finish"]_vars

\* the apply phase has computed a plan of two commits under dry_run
C8_Witness == dry_run /\ pc = "finish" /\ Len(commit_list) >= 2

\* C9: with dry_run set, no step of the run adds a commit to applied_commits
\* or hands a commit to a replay.
C9_DryRunInert ==
    [][dry_run => applied_commits' = applied_commits /\ replayed' = replayed]_vars

\* C10: in a run started with --apply-saved, a commit of the saved list that
\* is in applied_commits without having been replayed in this run (it was
\* loaded from the history) is never handed to a replay.
C10_SavedNotReplayedAgain ==
    [][mode = "saved" =>
          \A c \in (Range(initial_commits) \cap applied_commits) \ replayed :
             c \notin replayed']_vars

\* a saved run has ended whose plan held a commit of the history, left alone,
\* and a commit that was replayed
C10_Witness ==
    /\ mode = "saved"
    /\ pc = "done"
    /\ replayed # {}
    /\ \E c \in Range(commit_list) \cap Range(initial_commits) :
          c \in applied_commits /\ c \notin replayed

\* analyze_commit is called for a commit that is analysed or applied already:
\* by process_commit, or for a dependency the user adds
KnownEntered(commit) ==
    /\ commit \in analyzed_commits \cup applied_commits
    /\ \/ ProcessAnalyze /\ commit = MainCommit
       \/ /\ pc = "analyze"
          /\ Top.ph = "dep"
          /\ Top.deps # <<>>
          /\ commit = Head(Top.deps)
          /\ ~auto_add_dependencies
          /\ Contains(final_commits', commit)
          /\ stop_analysis' = stop_analysis

\* a call of analyze_commit has got past its checks: a frame was pushed
FramePushed == pc' = "analyze" /\ Len(stack') = Len(stack) + 1

\* C11: a call of analyze_commit for a commit that is in analyzed_commits or
\* applied_commits changes nothing (the lists and flags keep the values its
\* caller gave them: main resets the queue and the flag before it calls
\* process_commit, and a dependency is added by the caller before the call);
\* for any other commit, the commit is in final_commits and analyzed_commits
\* when its frame is entered, with all of its files still to be processed.
C11_EntryNoopOrRecorded ==
    [][/\ \A commit \in Commits : KnownEntered(commit) =>
             /\ final_commits' = (IF pc = "analyze"
                                  THEN AddOnce(final_commits, commit)
                                  ELSE final_commits)
             /\ cherry_pick_queue' = (IF pc = "analyze"
                                      THEN AddOnce(cherry_pick_queue, commit)
                                      ELSE <<commit>>)
             /\ analyzed_commits' = analyzed_commits
             /\ applied_commits' = applied_commits
             /\ file_renames' = file_renames
             /\ stop_analysis' = (IF pc = "analyze" THEN stop_analysis ELSE FALSE)
             /\ Len(stack') = Len(stack)
       /\ FramePushed =>
             LET fr == stack'[Len(stack')]
             IN /\ fr.c \in analyzed_commits'
                /\ Contains(final_commits', fr.c)
                /\ fr.ph = "file"
                /\ fr.files = CommitFiles(fr.c)
                /\ ~stop_analysis']_vars

\* main has reached a requested commit that an earlier analysis had taken up
\* already, and process_commit's call of analyze_commit has returned at once
C11_Witness ==
    /\ pc = "main"
    /\ idx >= 2
    /\ idx <= Len(initial_commits) + 1
    /\ initial_commit = initial_commits[idx - 1]
    /\ cherry_pick_queue = <<initial_commit>>
    /\ stack = <<>>
    /\ ~stop_analysis
    /\ initial_commit \in analyzed_commits
    /\ \E k \in 1..Len(final_commits) : k >= 2 /\ final_commits[k] = initial_commit
    /\ applied_commits = {}
    /\ skipped_commits = {}

\* after a stop decision nothing is added and no analysis is started
NothingAdded ==
    /\ final_commits' = final_commits
    /\ cherry_pick_queue' = cherry_pick_queue
    /\ analyzed_commits' = analyzed_commits
    /\ Len(stack') <= Len(stack)

\* C12, as stated: once a stop decision has set stop_analysis during the
\* analysis of a requested commit, no commit is added to final_commits,
\* cherry_pick_queue or analyzed_commits and no recursive analysis is started
\* before that analysis returns.
C12_StopAddsNothing == [][(stack # <<>> /\ stop_analysis) => NothingAdded]_vars

\* C12, amended: the same for the calls of analyze_commit that unwind after a
\* stop decision, each step being the return of the innermost call (or the
\* interruption of the run); the decision to apply at once, which sets the flag too, starts the apply phase
\* inside the analysis instead of unwinding.
C12_UnwindAddsNothing ==
    [][(pc = "analyze" /\ stop_analysis) =>
          /\ NothingAdded
          /\ Interrupt \/ (stack' = Pop /\ stop_analysis')]_vars

\* a recursive analysis was stopped and its caller is about to return
C12_Witness ==
    /\ pc = "analyze"
    /\ stop_analysis
    /\ stack # <<>>
    /\ Top.ph \in {"lastret", "depret"}

\* the handling of the missing paths of rec.commit ends and the handler
\* returns to its caller
MissingReturns == pc = "missing" /\ pc' = rec.ret

\* the replay of rec.commit is retried, with result ok
Retried(ok) == git_log' = Append(git_log, Op("pick", rec.commit, ok))

\* while the missing paths are handled the abort is the last operation, and
\* nothing is replayed or applied before the handler is done with the paths
AbortedFirst ==
    pc = "missing" =>
       /\ git_log # <<>>
       /\ git_log[Len(git_log)] = Op("abort", rec.commit, TRUE)
       /\ in_progress # "picking"
       /\ rec.commit \notin applied_commits
       /\ applied_commits' = applied_commits \/ MissingReturns
       /\ git_log' = git_log \/ MissingReturns \/ Interrupt

\* C13, as stated: after a failure that names missing paths the replay is
\* aborted, the paths are resolved and the replay is retried exactly once,
\* the commit being applied only if the retry succeeds.
C13_RetriedOnce ==
    [][/\ AbortedFirst
       /\ MissingReturns =>
             \E ok \in BOOLEAN :
                /\ Retried(ok)
                /\ applied_commits' =
                      (IF ok THEN applied_commits \cup {rec.commit} ELSE applied_commits)]_vars

\* C13, amended: the retry takes place, once, when at least one of the named
\* paths was handled; when none was, the handler gives up without a retry.
C13_RetriedOnceIfHandled ==
    [][/\ AbortedFirst
       /\ MissingReturns =>
             IF rec.handled > 0
             THEN \E ok \in BOOLEAN :
                     /\ Retried(ok)
                     /\ applied_commits' =
                           (IF ok THEN applied_commits \cup {rec.commit}
                            ELSE applied_commits)
             ELSE git_log' = git_log /\ applied_commits' = applied_commits]_vars

\* the batch loop is back in control after a retry that applied the commit
C13_Witness ==
    /\ pc = "batch"
    /\ ~auto_mode
    /\ batch_idx >= 2
    /\ Len(git_log) >= 3
    /\ git_log[Len(git_log)] = Op("pick", commit_list[batch_idx - 1], TRUE)
    /\ git_log[Len(git_log) - 1] = Op("abort", commit_list[batch_idx - 1], TRUE)
    /\ commit_list[batch_idx - 1] \in applied_commits

\* the handler returns from its entry and no strategy has applied the commit:
\* the failure named neither missing nor unmerged paths, 1420-1424
Unclassified ==
    /\ pc = "recover"
    /\ pc' = rec.ret
    /\ git_log'[Len(git_log')] # Op("pick", rec.commit, TRUE)

\* C14: when a replay fails and neither missing nor unmerged paths are
\* reported, the replay is aborted, the failure stays counted for the commit
\* (the batch loop counted it before it called the handler) and the commit is
\* not added to applied_commits.
C14_UnclassifiedAborted ==
    [][Unclassified =>
          /\ git_log'[Len(git_log')] = Op("abort", rec.commit, TRUE)
          /\ in_progress' # "picking"
          /\ applied_commits' = applied_commits
          /\ rec.commit \notin applied_commits'
          /\ rec.ret = "batch" =>
                /\ fail_count >= 1
                /\ fail_count' = fail_count
                /\ success_count' = success_count]_vars

\* the second commit of the plan was refused on the tree the first had left
\* in a replay, with no answer out of the plain left: its failure named no
\* paths and the replay in progress was aborted
C14_Witness ==
    /\ pc = "batch"
    /\ batch_idx = 3
    /\ surprises = budget
    /\ commit_list[1] \in replayed \ applied_commits
    /\ git_log = <<Op("pick", commit_list[2], FALSE), Op("abort", commit_list[2], TRUE)>>
    /\ commit_list[2] \notin applied_commits
    /\ in_progress = "clean"
    /\ fail_count = 2

\* the dependency cache the next run starts with: the module removes the file
\* when it is loaded (66), then main loads what is left (2342)
NextRunCache == LoadDepCache(CleanTemp(cache_file))

\* C15: an entry (commit, file) -> suspects written to dep_cache during a run
\* is in the cache the next run loads at start-up.
C15_CachePersisted ==
    pc = "done" =>
       \A k \in Commits \X Files : dep_cache[k] # NoEntry => NextRunCache[k] = dep_cache[k]

C17_AutoNeverPrompts == auto_mode => ~asked

\* a dependency the extractor reported is appended to final_commits by this
\* step of the loop over relevant_deps
SuspectAdded ==
    /\ pc = "analyze"
    /\ Top.ph = "dep"
    /\ Top.deps # <<>>
    /\ final_commits' # final_commits

\* C18 as stated: with auto_add_dependencies disabled, a suspect commit is
\* added to final_commits only by a step in which the user was prompted.
C18_SuspectOnlyAfterPrompt ==
    [][(~auto_add_dependencies /\ SuspectAdded) => asked']_vars

\* C18, amended: with auto_add_dependencies and automatic mode both disabled,
\* a suspect commit is added to final_commits only by a step in which the
\* user was prompted, and it is the commit the prompt was about.
C18_SuspectOnlyAfterPromptManual ==
    [][(~auto_add_dependencies /\ ~auto_mode /\ SuspectAdded)
         => /\ asked'
            /\ final_commits' = Append(final_commits, Head(Top.deps))]_vars

C18_Witness ==
    /\ ~auto_add_dependencies
    /\ ~auto_mode
    /\ asked
    /\ pc = "analyze"
    /\ Len(stack) >= 2
    /\ stack[Len(stack) - 1].ph = "depret"
    /\ Contains(final_commits, Top.c)
    /\ Top.files = CommitFiles(Top.c)

\* C19: the similarity score does not depend on the order of its two
\* arguments: what a call returned is what the call with the arguments
\* exchanged returns.
C19_Symmetric ==
    similarity # NotComputed => similarity = CalculateSimilarity(str2, str1)

C19_Witness ==
    /\ similarity # NotComputed
    /\ similarity > 0
    /\ Len(str1) < Len(str2)
    /\ \E k \in 1..Len(str1) : str1[k] # str2[k]

\* C20: the similarity score is 0 whenever one of the two arguments is the
\* empty string, both being empty included.
C20_EmptyScoresZero ==
    (similarity # NotComputed /\ (str1 = <<>> \/ str2 = <<>>)) => similarity = 0

C20_Witness ==
    /\ similarity = 0
    /\ str1 = <<>>
    /\ str2 = <<>>

RECURSIVE Levenshtein(_, _)
\* the edit distance of two strings by its textbook recurrence: insertion,
\* deletion and substitution cost 1 each
Levenshtein(a, b) ==
    IF a = <<>> THEN Len(b)
    ELSE IF b = <<>> THEN Len(a)
    ELSE IF Head(a) = Head(b) THEN Levenshtein(Tail(a), Tail(b))
    ELSE 1 + Min3(Levenshtein(Tail(a), b), Levenshtein(a, Tail(b)),
                  Levenshtein(Tail(a), Tail(b)))

\* C21: for non-empty strings the score is round(100 * (L - d) / L), L the
\* greater length and d the Levenshtein distance; it is an integer of 0..100,
\* and 100 for equal strings.
C21_ScoreIsRoundedRatio ==
    (similarity # NotComputed /\ str1 # <<>> /\ str2 # <<>>) =>
        /\ similarity = Round(100 * (Len(Longer) - Levenshtein(str1, str2)), Len(Longer))
        /\ similarity \in 0..100
        /\ str1 = str2 => similarity = 100

\* C22: find_similar_files returns at most 5 candidates, in non-increasing
\* order of score, whatever the path and the files of the repository.
C22_FewAndSorted ==
    /\ Len(results) <= MaxResults
    /\ \A i, j \in 1..Len(results) : i < j => results[i][2] >= results[j][2]

C22_Witness ==
    /\ file_path # NoPath
    /\ Len(all_files) > MaxResults
    /\ Len(results) = MaxResults
    /\ results[1][2] > results[MaxResults][2]
    /\ \E k \in 1..Len(all_files) : \A i \in 1..Len(results) : results[i][1] # all_files[k]

\* C23: every candidate find_similar_files returns has a score that meets or
\* exceeds the rename-detection threshold, for every threshold of 0..100.
C23_ScoresMeetThreshold ==
    \A i \in 1..Len(results) : results[i][2] >= threshold

\* ------------------------------------- get_blame_and_grep_dependencies, 597-776
\* main takes the commits as they were written on the command line (2264,
\* 2390) and nothing turns them into hashes: a commit is named by its full
\* hash or, as in the examples of show_help (2212-2216), by an abbreviation
\* of it.  git prints %H, the full hash.
Forms == {"full", "abbreviated"}

Names == [id : Commits, form : Forms]

\* a line of `git blame --porcelain`, of `git log --pretty=format:'%H'` or of
\* `git log --format='%H'`, 634-635, 745, 765-766
FullHash(c) == [id |-> c, form |-> "full"]

\* `if commit in suspects: suspects.remove(commit)`, 769-770
WithoutCommit(suspects, commit) == suspects \ {commit}

\* get_blame_and_grep_dependencies that looks the suspects up every time
BlameUncached(cache, commit, file, content, printed) ==
    IF ~content THEN [deps |-> {}, cache |-> cache, from |-> "no content"]
    ELSE LET suspects == {FullHash(c) : c \in printed}
             suspects_list == WithoutCommit(suspects, commit)
         IN [deps |-> suspects_list,
             cache |-> [k \in DOMAIN cache \cup {<<commit, file>>} |->
                           IF k = <<commit, file>> THEN suspects_list ELSE cache[k]],
             from |-> "git"]

\* get_blame_and_grep_dependencies, 597-776: the cached list, the empty list
\* when the content is unavailable, or the suspects that blame, the symbol
\* search and the rename history print, without the commit as it was written;
\* the list is a set here, list(suspects) having no order of its own
BlameAndGrep(cache, commit, file, content, printed) ==
    IF <<commit, file>> \in DOMAIN cache
    THEN [deps |-> cache[<<commit, file>>], cache |-> cache, from |-> "cache"]
    ELSE IF ~content THEN [deps |-> {}, cache |-> cache, from |-> "no content"]
    ELSE LET suspects == {FullHash(c) : c \in printed}
             suspects_list == WithoutCommit(suspects, commit)
         IN [deps |-> suspects_list,
             cache |-> [k \in DOMAIN cache \cup {<<commit, file>>} |->
                           IF k = <<commit, file>> THEN suspects_list ELSE cache[k]],
             from |-> "git"]

\* a repository in which git reports the commits of touching for every file
BlameInit ==
    /\ Idle
    /\ NoCall
    /\ NoFiles
    /\ NoRun
    /\ NoNamed
    /\ NoOrigin
    /\ served = NotServed
    /\ blamed = NoName
    /\ dependencies = {}
    /\ named_cache = [k \in {} |-> {}]
    /\ touching \in SUBSET Commits

\* the commits the calls are made for, however they are written
Analysed == {n \in Names : n.id <= MaxInitial}

\* one call of get_blame_and_grep_dependencies with the cache of the run
GetBlameAndGrepDependencies ==
    \E commit \in Analysed, file \in Files, content \in BOOLEAN :
        LET r == BlameAndGrep(named_cache, commit, file, content, touching)
        IN /\ blamed' = <<commit, file>>
           /\ dependencies' = r.deps
           /\ named_cache' = r.cache
           /\ served' = r.from
           /\ UNCHANGED <<runVars, callVars, findVars, originVars, namedVars, shellVars, touching>>

BlameNext == GetBlameAndGrepDependencies

BlameSpec == BlameInit /\ [][BlameNext]_vars

\* C24: the list get_blame_and_grep_dependencies returns never holds the
\* commit it was called for, whether it was computed or taken from the cache.
C24_NeverOwnDependency ==
    blamed # NoName => \A d \in dependencies : d.id # blamed[1].id

\* C25: apply_commits_in_order writes its de-duplicated plan to the
\* saved-commits file before the first replay of the batch: from the entry
\* of the batch loop on, through every replay and every recovery, the file
\* holds the plan, and so every commit the batch has handed to a replay.
C25_PlanSavedBeforeReplay ==
    InBatch =>
        /\ commits_file = commit_list
        /\ \A k \in 1..Len(git_log) :
              git_log[k].op = "pick" => Contains(commits_file, git_log[k].c)
        /\ \A k \in 1..Len(commit_list) :
              k < batch_idx => Contains(commits_file, commit_list[k])

C25_Witness ==
    /\ InBatch
    /\ batch_idx > 1
    /\ commits_file # initial_commits
    /\ \E k \in 1..Len(git_log) :
          git_log[k].op = "pick" /\ ~Contains(initial_commits, git_log[k].c)

\* the requested commits that final_commits lacks when the plan is built and
\* that the plan holds
Lacking == {r \in Range(initial_commits) \cap Range(commit_list') :
               ~Contains(final_commits, r)}

\* the commits final_commits holds when the plan is built and the plan keeps
Held == Range(final_commits) \cap Range(commit_list')

\* C26, as stated: when apply_commits_in_order builds the plan, the requested
\* commits not yet in final_commits come before the commits final_commits
\* holds already.
C26_RequestedFirst ==
    [][ProceedApply =>
          \A r \in Lacking, c \in Held :
              FirstAt(commit_list', r) < FirstAt(commit_list', c)]_vars

\* C26, amended: the requested commits not yet in final_commits come after
\* the commits final_commits holds already, in the order of the request.
C26_RequestedLast ==
    [][ProceedApply =>
          /\ \A r \in Lacking, c \in Held :
                FirstAt(commit_list', c) < FirstAt(commit_list', r)
          /\ \A r, q \in Lacking :
                FirstAt(initial_commits, r) < FirstAt(initial_commits, q) =>
                    FirstAt(commit_list', r) < FirstAt(commit_list', q)]_vars

\* a plan was built of a commit final_commits held and a requested one it
\* lacked
C26_Witness ==
    /\ pc = "batch"
    /\ batch_idx = 1
    /\ Len(commit_list) >= 2
    /\ \E r \in Range(initial_commits) :
          /\ r = commit_list[Len(commit_list)]
          /\ r \notin analyzed_commits
          /\ commit_list[1] \in analyzed_commits

\* the last operation logged is a replay, a continuation or a commit of the
\* patch for the commit, and it succeeded
EndedWell(log, commit) ==
    /\ log # <<>>
    /\ log[Len(log)].c = commit
    /\ log[Len(log)].op \in {"pick", "continue", "commit"}
    /\ log[Len(log)].ok

\* C27: when the first replay of a commit of the plan succeeds, or the
\* handling of its failure returns after an operation that succeeded (a
\* strategy retry, the retry after the missing files, a continuation, the
\* commit of the patch with renames), the commit is in applied_commits.
C27_SuccessMarksApplied ==
    [][/\ (pc = "batch" /\ batch_idx <= Len(commit_list)
              /\ EndedWell(git_log', commit_list[batch_idx]) /\ pc' = "batch"
              => commit_list[batch_idx] \in applied_commits')
       /\ (pc \in {"recover", "missing", "conflict_auto", "options"}
              /\ pc' = rec.ret /\ EndedWell(git_log', rec.commit)
              => rec.commit \in applied_commits')]_vars

\* C28: when main's call of analyze_commit for a commit returns and the
\* analysis was not stopped, every suspect that was added to final_commits
\* during it, by the user's choice or under auto_add_dependencies, is in
\* analyzed_commits.
C28_SuspectsAnalysed ==
    [][(pc = "analyze" /\ pc' = "main" /\ ~stop_analysis') =>
          \A p \in added_suspects' : p[1] = stack[1].c => p[2] \in analyzed_commits']_vars

\* C29, as stated: when one of the paths named by a missing-index failure
\* was not resolved (the search declined, no adding commit found, or the
\* handling failed), the handling of the commit ends in failure without a
\* retry of the replay.
C29_AnyUnresolvedGivesUp ==
    [][(MissingReturns /\ rec.handled < rec.named) =>
          /\ git_log' = git_log
          /\ rec.commit \notin applied_commits']_vars

\* C29, amended: with a path left unresolved the handling ends in failure
\* without a retry only if none of the named paths was resolved; if one was,
\* the replay is retried although another was not.
C29_NoneResolvedGivesUp ==
    [][(MissingReturns /\ rec.handled < rec.named) =>
          IF rec.handled = 0
          THEN git_log' = git_log /\ rec.commit \notin applied_commits'
          ELSE \E ok \in BOOLEAN : Retried(ok)]_vars

\* the loop over two named paths is over, one of them resolved and one not
C29_Witness ==
    /\ pc = "missing"
    /\ rec.missing = <<>>
    /\ rec.named = 2
    /\ rec.handled = 1

\* ------------------------------------------------------------- run, 181-218
MaxRetries == 2

\* what a call of run gives back: result.stdout.strip(), "" or None
Outputs == {"", "output"}
NoOutput == "None"

\* how one subprocess.run ends: returncode 0, another returncode, an exception
Codes == {"zero", "nonzero", "raised"}

\* the calls of run: whether cmd names the remote in a `git log a..b` or a
\* `git show rev:path` (183-184), and the keyword arguments
RunCalls ==
    {[remote |-> r, allow_fail |-> a, capture_output |-> c, retry |-> 0, code |-> "none"] :
        r \in BOOLEAN, a \in BOOLEAN, c \in BOOLEAN}

\* `return result.stdout.strip() if capture_output else None`, 190, 209
Stdout(call, out) == IF call.capture_output THEN out ELSE NoOutput

\* any call of run, under any retry budget
RunInit ==
    /\ Idle
    /\ NoCall
    /\ NoFiles
    /\ NoBlame
    /\ NoNamed
    /\ NoOrigin
    /\ max_retries \in 0..MaxRetries
    /\ run_call \in RunCalls
    /\ executions = 0
    /\ returned = NotReturned

\* one subprocess.run of the innermost call and what the call does with its
\* result: return, or call run again (with the local form of the command,
\* 191-197, or with retry + 1, 205-208 and 214-217)
Execute ==
    /\ returned = NotReturned
    /\ executions' = executions + 1
    /\ \E code \in Codes, out \in Outputs :
          LET done(v) == /\ returned' = v
                         /\ run_call' = [run_call EXCEPT !.code = code]
              again(call) == /\ returned' = returned
                             /\ run_call' = [call EXCEPT !.code = code]
          IN IF run_call.remote
             THEN IF code = "zero" THEN done(Stdout(run_call, out))
                  ELSE again([run_call EXCEPT !.remote = FALSE])
             ELSE IF code = "zero" THEN done(Stdout(run_call, out))
             ELSE IF run_call.allow_fail THEN done("")
             ELSE IF run_call.retry < max_retries
                  THEN again([run_call EXCEPT !.retry = run_call.retry + 1])
             ELSE IF code = "nonzero" THEN done(Stdout(run_call, out))
             ELSE done("")
    /\ UNCHANGED <<runVars, callVars, findVars, originVars, blameVars, namedVars, max_retries>>

RunNext == Execute

RunSpec == RunInit /\ [][RunNext]_vars

\* C30: a call of run executes its command at most 1 + max_retries times,
\* exactly once if it fails and the caller passed allow_fail, and after a
\* last failed attempt it returns an empty result; the same for a command
\* that names the remote.
C30_BoundedRetries ==
    /\ executions <= 1 + max_retries
    /\ (returned # NotReturned /\ run_call.code # "zero") =>
          /\ run_call.allow_fail => executions = 1
          /\ returned \in {"", NoOutput}

\* ------------------------- analyze_commit by the names of the commits, 872-988
\* The guards of analyze_commit compare the strings the commits are written
\* with: `commit in analyzed_commits` (878), `dep not in analyzed_commits ...
\* and dep != commit` (970).  Here every commit changes one file, nothing is
\* applied yet, and the user answers each suspect with "Agregar" or with
\* "Continuar con el cherry-pick".

\* relevant_deps, 970, on names
RelevantNames(deps, commit, analyzed) == {d \in deps : d \notin analyzed /\ d # commit}

\* analyze_commit(commit) past its checks, 878-885 and 969-970: the commit is
\* recorded, its suspects are looked up and a frame is pushed for the loop
EnterNames(commit) ==
    LET analyzed == analyzed_names \cup {commit}
        r == BlameAndGrep(named_cache, commit, 1, TRUE, touching)
    IN /\ analyzed_names' = analyzed
       /\ entries' = [entries EXCEPT ![commit.id] = entries[commit.id] + 1]
       /\ named_cache' = r.cache
       /\ name_stack' = Append(name_stack,
              [c |-> commit, deps |-> RelevantNames(r.deps, commit, analyzed)])

\* a repository in which git reports the commits of touching for every file
NamedInit ==
    /\ Idle
    /\ NoCall
    /\ NoFiles
    /\ NoRun
    /\ NoNamed
    /\ NoOrigin
    /\ served = NotServed
    /\ blamed = NoName
    /\ dependencies = {}
    /\ named_cache = [k \in {} |-> {}]
    /\ touching \in SUBSET Commits

\* main's loop calls process_commit for a requested commit, 2393-2406, and the
\* user has it analysed
ProcessNamed ==
    /\ name_stack = <<>>
    /\ \E commit \in Analysed :
          /\ commit \notin analyzed_names
          /\ EnterNames(commit)
    /\ UNCHANGED <<runVars, callVars, findVars, originVars, shellVars, blamed, dependencies, touching, served>>

\* one iteration of `for dep_commit in relevant_deps`, 971-988
SuspectNamed ==
    /\ name_stack # <<>>
    /\ LET top == name_stack[Len(name_stack)]
           rest(d) == [name_stack EXCEPT ![Len(name_stack)].deps = top.deps \ {d}]
       IN \E dep_commit \in top.deps, choice \in {"Agregar", "Continuar"} :
             IF choice = "Continuar"
             THEN /\ name_stack' = <<>>
                  /\ UNCHANGED <<analyzed_names, entries, named_cache>>
             ELSE IF dep_commit \in analyzed_names
             THEN /\ name_stack' = rest(dep_commit)
                  /\ UNCHANGED <<analyzed_names, entries, named_cache>>
             ELSE LET analyzed == analyzed_names \cup {dep_commit}
                      r == BlameAndGrep(named_cache, dep_commit, 1, TRUE, touching)
                  IN /\ analyzed_names' = analyzed
                     /\ entries' = [entries EXCEPT ![dep_commit.id] = entries[dep_commit.id] + 1]
                     /\ named_cache' = r.cache
                     /\ name_stack' = Append(rest(dep_commit),
                            [c |-> dep_commit,
                             deps |-> RelevantNames(r.deps, dep_commit, analyzed)])
    /\ UNCHANGED <<runVars, callVars, findVars, originVars, shellVars, blamed, dependencies, touching, served>>

\* the loop is over: analyze_commit returns
ReturnNamed ==
    /\ name_stack # <<>>
    /\ name_stack[Len(name_stack)].deps = {}
    /\ name_stack' = SubSeq(name_stack, 1, Len(name_stack) - 1)
    /\ UNCHANGED <<runVars, callVars, findVars, originVars, shellVars, blameVars, analyzed_names, entries>>

NamedNext == ProcessNamed \/ SuspectNamed \/ ReturnNamed

NamedSpec == NamedInit /\ [][NamedNext]_vars

\* C31 (the part on single entry): analyze_commit gets past its checks at
\* most once per commit in a run, cyclic suspect relations included.
C31_AnalysedOnce == \A c \in Commits : entries[c] <= 1

\* ------------------------------------------- the cache of the suspects, 597-776
\* The calls of one run on one cache, while the history that `git log -- file`
\* prints (745, 765) gets longer: the replay of 1212 and the fetches of 434,
\* 828 and 1449 add commits to it.

\* the commits that join the history during the run
Joining == {c \in Commits : c <= MaxInitial}

CacheInit ==
    /\ Idle
    /\ NoCall
    /\ NoFiles
    /\ NoRun
    /\ NoNamed
    /\ NoOrigin
    /\ NoBlame

\* get_blame_and_grep_dependencies(commit, file, dep_cache) for a commit
\* written as its hash
Lookup ==
    \E c \in Joining, file \in Files, content \in BOOLEAN :
        LET r == BlameAndGrep(named_cache, FullHash(c), file, content, touching)
        IN /\ blamed' = <<FullHash(c), file>>
           /\ dependencies' = r.deps
           /\ named_cache' = r.cache
           /\ served' = r.from
           /\ UNCHANGED <<runVars, callVars, findVars, originVars, namedVars, shellVars, touching>>

HistoryGrows ==
    /\ \E c \in Joining \ touching : touching' = touching \cup {c}
    /\ UNCHANGED <<runVars, callVars, findVars, originVars, namedVars, shellVars,
                   blamed, dependencies, named_cache, served>>

CacheNext == Lookup \/ HistoryGrows

CacheSpec == CacheInit /\ [][CacheNext]_vars

\* what git would be asked for now, 616-770
AskedNow(commit) == WithoutCommit({FullHash(c) : c \in touching}, commit)

\* C32: an entry of the cache of the suspects is never changed nor removed; a
\* call for a key the cache holds returns the stored list as it is, without
\* asking git; a call that finds no content returns the empty list and
\* leaves the cache as it was.
C32_CacheTrusted ==
    [][ /\ \A k \in DOMAIN named_cache :
              k \in DOMAIN named_cache' /\ named_cache'[k] = named_cache[k]
        /\ (touching' = touching /\ blamed' \in DOMAIN named_cache)
              => /\ dependencies' = named_cache[blamed']
                 /\ served' = "cache"
                 /\ named_cache' = named_cache
        /\ (touching' = touching /\ served' = "no content")
              => /\ dependencies' = {}
                 /\ named_cache' = named_cache ]_vars

\* a stored list is returned although git would now print another one
C32_Witness ==
    /\ served = "cache"
    /\ dependencies # AskedNow(blamed[1])
    /\ \E k \in DOMAIN named_cache : named_cache[k] # {}

\* a call found no content for a key, other keys being stored
C32_NoContent ==
    /\ served = "no content"
    /\ blamed \notin DOMAIN named_cache
    /\ named_cache # <<>>

\* ------------------------------------------------ find_commit_adding_file, 432-474
\* The hashes of this section, and the lists of them that git prints newest
\* first.
Hashes == 1..MaxInitial
Printed == {<<>>} \cup {<<c>> : c \in Hashes}
               \cup {<<c, d>> : <<c, d>> \in {p \in Hashes \X Hashes : p[1] > p[2]}}
OneLine == Hashes \cup {None}

\* `commits = result.splitlines(); return commits[-1]`, 436-439, 452-455
LastLine(printed) == IF printed = <<>> THEN None ELSE printed[Len(printed)]

\* the loop over similar_files, 468-472: the first candidate whose search
\* prints something
FirstSimilar(lines) ==
    LET hits == {k \in 1..Len(lines) : lines[k] # None}
    IN IF hits = {} THEN None ELSE lines[CHOOSE k \in hits : \A j \in hits : k <= j]

\* `git grep -l` names a place and `git log -n 1` prints its commit, 462-466
GrepCommit(grep) == IF grep.place THEN grep.commit ELSE None

\* what git answers: on the remote (433-447 and search_file_in_remote,
\* 397-430) and on the local history (451-472)
LocalAnswers ==
    [added : Printed, full : OneLine,
     grep : [place : BOOLEAN, commit : OneLine],
     similar : {<<>>} \cup {<<a>> : a \in OneLine}]
RemoteAnswers ==
    [remote_added : Printed, remote_full : OneLine, ref_added : Printed,
     in_remote : OneLine]
NoRemote ==
    [remote_added |-> <<>>, remote_full |-> None, ref_added |-> <<>>,
     in_remote |-> None]

\* the same searches with the remote asked after the local history
LocalFirst(remote, local, far) ==
    << <<"added", LastLine(local.added)>>,
       <<"full", local.full>>,
       <<"grep", GrepCommit(local.grep)>>,
       <<"similar", FirstSimilar(local.similar)>> >>
    \o (IF remote THEN << <<"remote added", LastLine(far.remote_added)>>,
                          <<"remote full", far.remote_full>>,
                          <<"ref added", LastLine(far.ref_added)>>,
                          <<"in remote", far.in_remote>> >>
                  ELSE <<>>)

\* the searches in the order of the function's text, each with what it
\* would return
Searches(remote, local, far) ==
    (IF remote THEN << <<"remote added", LastLine(far.remote_added)>>,
                       <<"remote full", far.remote_full>>,
                       <<"ref added", LastLine(far.ref_added)>> >>
               ELSE <<>>)
    \o << <<"added", LastLine(local.added)>>,
          <<"full", local.full>>,
          <<"grep", GrepCommit(local.grep)>>,
          <<"similar", FirstSimilar(local.similar)>> >>
    \o (IF remote THEN << <<"in remote", far.in_remote>> >> ELSE <<>>)

RECURSIVE FirstResult(_)
\* `if result: return ...` one search after the other; None at the end, 474
FirstResult(searches) ==
    IF searches = <<>> THEN [by |-> "none", commit |-> None]
    ELSE IF searches[1][2] # None
         THEN [by |-> searches[1][1], commit |-> searches[1][2]]
         ELSE FirstResult(Tail(searches))

\* a call of find_commit_adding_file is about to be made
OriginInit ==
    /\ Idle
    /\ NoCall
    /\ NoFiles
    /\ NoRun
    /\ NoNamed
    /\ NoBlame
    /\ \E remote \in BOOLEAN, local \in LocalAnswers, far \in RemoteAnswers :
          /\ ~remote => far = NoRemote
          /\ origin = [remote_name |-> remote, local |-> local, far |-> far,
                       found |-> [by |-> "(running)", commit |-> None]]

FindCommitAddingFile ==
    /\ origin.found.by = "(running)"
    /\ origin' = [origin EXCEPT
                     !.found = FirstResult(Searches(origin.remote_name, origin.local, origin.far))]
    /\ UNCHANGED <<runVars, callVars, findVars, blameVars, namedVars, shellVars>>

OriginNext == FindCommitAddingFile

OriginSpec == OriginInit /\ [][OriginNext]_vars

OriginReturned == origin.found.by \notin {"(running)", "(no call)"}

\* what each search of the local history finds, and what the remote finds
Local(o) ==
    << LastLine(o.local.added), o.local.full, GrepCommit(o.local.grep),
       FirstSimilar(o.local.similar) >>
Far(o) ==
    << LastLine(o.far.remote_added), o.far.remote_full, LastLine(o.far.ref_added) >>

FirstOf(answers) ==
    LET hits == {k \in 1..Len(answers) : answers[k] # None}
    IN IF hits = {} THEN None ELSE answers[CHOOSE k \in hits : \A j \in hits : k <= j]

\* C33 as stated: the commit returned is that of the first search that
\* succeeds in the order added (oldest), full history, text of the base name,
\* similar paths, and only then the remote.
C33_LocalBeforeRemote ==
    OriginReturned =>
        origin.found.commit = FirstOf(Local(origin) \o Far(origin) \o <<origin.far.in_remote>>)

\* C33 (amended): with a remote, the remote is asked first (added, full
\* history, added on each of its references), then the local history in the
\* order added (oldest), full history, text of the base name, similar paths,
\* and last the branches of the remote are listed; the first search that
\* succeeds gives the commit, and nothing is returned only when all fail.
C33_RemoteBeforeLocal ==
    OriginReturned =>
        /\ origin.found.commit = FirstOf(Far(origin) \o Local(origin) \o <<origin.far.in_remote>>)
        /\ origin.found.commit = None
              <=> \A k \in 1..4 : Local(origin)[k] = None /\
                                   (Far(origin) \o <<origin.far.in_remote>>)[k] = None

\* the local history and the remote both have a commit that added the path,
\* and they are not the same commit
C33_Witness ==
    /\ OriginReturned
    /\ origin.remote_name
    /\ LastLine(origin.local.added) # None
    /\ LastLine(origin.far.remote_added) # None
    /\ LastLine(origin.local.added) # LastLine(origin.far.remote_added)
    /\ Len(origin.local.added) = 2

\* C34: every candidate find_similar_files returns has a score of 0..100, the
\* bonuses for the directory included.
C34_ScoresWithinHundred ==
    \A i \in 1..Len(results) : results[i][2] \in 0..100

\* C39: the list find_similar_files returns never has the same path twice,
\* whichever rule produced the candidates.
C39_PathsListedOnce ==
    \A i, j \in 1..Len(results) : results[i][1] = results[j][1] => i = j

\* the log has a replay or a commit of the commit that succeeded
DoneWell(log, commit) ==
    \E k \in 1..Len(log) :
        /\ log[k].c = commit
        /\ log[k].op \in {"pick", "continue", "commit"}
        /\ log[k].ok

\* C35: a commit enters applied_commits only in a step in which git replayed
\* or committed it with success; no path marks it applied when that
\* operation failed or was not run.
C35_AppliedOnlyAfterSuccess ==
    [][\A c \in applied_commits' \ applied_commits : DoneWell(git_log', c)]_vars

\* C36: the commits that the handling of missing files adds to final_commits
\* while the plan is applied are replayed before the batch ends: once the
\* loop has taken up all of the plan, every commit of final_commits that is
\* not skipped was handed to a replay or is applied.
C36_AddedAreReplayed ==
    (pc \in {"finish", "done"} /\ batch_idx >= 1 /\ batch_idx > Len(commit_list)) =>
        \A k \in 1..Len(final_commits) :
            final_commits[k] \notin skipped_commits
                => final_commits[k] \in replayed \cup applied_commits

\* the commits of the plan that are in applied_commits
PlanApplied == {k \in 1..Len(commit_list) : commit_list[k] \in applied_commits}

\* C37: when apply_commits_in_order has gone through the plan, the count of
\* successes it reports is the number of commits of the plan that are in
\* applied_commits and the count of failures the number of those that are
\* not; a commit applied by the handling of its failure counts as a success.
C37_CountsMatchApplied ==
    (pc \in {"finish", "done"} /\ batch_idx >= 1 /\ batch_idx > Len(commit_list)) =>
        /\ success_count = Cardinality(PlanApplied)
        /\ fail_count = Len(commit_list) - Cardinality(PlanApplied)

\* final is final_commits with commits appended to it
Extends(final, before) ==
    /\ Len(final) >= Len(before)
    /\ SubSeq(final, 1, Len(before)) = before

\* C38: from main's reset of the lists on, every commit of analyzed_commits
\* is in final_commits, and no step takes a commit out of final_commits or
\* out of analyzed_commits.
C38_AnalyzedWithinFinal ==
    [][/\ \A c \in analyzed_commits : Contains(final_commits, c)
       /\ \A c \in analyzed_commits' : Contains(final_commits', c)
       /\ analyzed_commits \subseteq analyzed_commits'
       /\ Extends(final_commits', final_commits)]_vars

\* the plan is being applied after an analysis that recorded two commits, and
\* final_commits holds a commit that was not analysed
C38_Witness ==
    /\ InBatch
    /\ Cardinality(analyzed_commits) >= 2
    /\ \E k \in 1..Len(final_commits) : final_commits[k] \notin analyzed_commits

====
